---- MODULE Spec2Model ----
(***************************************************************************)
(* Model of backend/app/netbox.py: the two channel clients (MCP bridge and *)
(* direct NetBox REST), the reference resolver, the choice aggregator, the *)
(* device assembler, the payload builder and the batch creators.           *)
(*                                                                         *)
(* One request is in flight per behaviour.  Every await of the source is   *)
(* one step: the step draws the network's reply with \E, passes it through *)
(* the channel client (mcp_invoke, nb_get, nb_post, nb_options) and then   *)
(* runs the handler's code up to its next await.                           *)
(***************************************************************************)
EXTENDS Integers, Sequences, FiniteSets, TLC

\* ---------------------------------------------------------------- bounds
\* longest filter list handed to resolve_one_mcp_or_rest
MaxFilters == 2
\* longest item list handed to a batch creator
MaxItems == 3
\* longest per-field list of one choice source
MaxChoices == 2

\* ------------------------------------------------------------ exceptions
\* A Python exception: HTTPException carries status_code and detail; every
\* other class (httpx transport errors, KeyError, AttributeError, ValueError)
\* is "Exception".  detail is a sequence of strings.
NoErr == [type |-> "None", status |-> 0, detail |-> <<>>]
HTTPException(status, detail) == [type |-> "HTTPException", status |-> status, detail |-> detail]
OtherException(name) == [type |-> "Exception", status |-> 0, detail |-> <<name>>]

\* The outcome of a call: it raised exc, or it returned val.
Raise(e) == [exc |-> e, val |-> <<>>]
Return(v) == [exc |-> NoErr, val |-> v]
Raised(o) == o.exc.type # "None"

\* ------------------------------------------------------------- the network
\* What the peer does with one request: answers 2xx with a JSON body, answers
\* with an error status, or the request ends in a transport error (timeout,
\* connection refused).
NetReply(net, status, body) == [net |-> net, status |-> status, body |-> body]
RestStatuses == {400}
McpFailures == {NetReply("status", 500, <<>>), NetReply("transport", 0, <<>>)}
RestFailures == {NetReply("status", s, <<>>) : s \in RestStatuses} \cup {NetReply("transport", 0, <<>>)}
Ok(body) == NetReply("2xx", 200, body)

\* ------------------------------------------------------------ configuration
\* os.getenv gives None when the variable is unset; "" is a set but empty value.
EnvValues == {"None", "http://netbox"}
Truthy(s) == s \notin {"None", ""}

VARIABLES
    NETBOX_DIRECT_BASE, NETBOX_TOKEN,   \* module-level configuration
    op,                                 \* the handler serving the request
    pc,                                 \* its position
    result,                             \* what the handler returned or raised
    calls,                              \* requests sent since the current resolution / handler began
    sentMcp, sentRest,                  \* requests sent on each channel during the whole request
    mcp_tool, rest_path, try_filters, fi, last_err, resolved,   \* resolve_one_mcp_or_rest
    body, stage, ids, device_payload,   \* prepare_device, create_device
    device_id, items, items_type, idx, created, errors,  \* create_interfaces / create_rear_ports / create_front_ports
    sources, opts, merged,              \* list_choices, _merge_choice_sources
    device, site, dev_obj, ports,       \* device_with_ports
    suspended                           \* the local state of a second request in flight, waiting at an await

cfgVars == <<NETBOX_DIRECT_BASE, NETBOX_TOKEN>>
resolverVars == <<mcp_tool, rest_path, try_filters, fi, last_err, resolved>>
prepareVars == <<body, stage, ids, device_payload>>
batchVars == <<device_id, items, items_type, idx, created, errors>>
choiceVars == <<sources, opts, merged>>
deviceVars == <<device, site, dev_obj, ports>>
vars == <<NETBOX_DIRECT_BASE, NETBOX_TOKEN, op, pc, result, calls, sentMcp, sentRest,
          mcp_tool, rest_path, try_filters, fi, last_err, resolved, body, stage, ids, device_payload,
          device_id, items, items_type, idx, created, errors, sources, opts, merged,
          device, site, dev_obj, ports, suspended>>

\* --------------------------------------------------------- channel clients
\* mcp_invoke: client.post raises on a transport error; raise_for_status turns
\* an error status into HTTPException(502); otherwise r.json() is returned.
mcp_invoke(reply) ==
    IF reply.net = "transport" THEN Raise(OtherException("httpx.TransportError"))
    ELSE IF reply.net = "status" THEN Raise(HTTPException(502, <<"MCP call failed">>))
    ELSE Return(reply.body)

\* payload.get("result", payload)
unwrap_result(payload) == IF "result" \in DOMAIN payload THEN payload.result ELSE payload

\* The guard of nb_get / nb_post / nb_options: a request goes out only past it.
NbConfiguredBaseOnly == Truthy(NETBOX_DIRECT_BASE)
NbConfigured == Truthy(NETBOX_DIRECT_BASE) /\ Truthy(NETBOX_TOKEN)

NotConfigured == HTTPException(502, <<"Direct NetBox fallback not configured">>)

nb_request(reply) ==
    IF ~NbConfigured THEN Raise(NotConfigured)
    ELSE IF reply.net = "transport" THEN Raise(OtherException("httpx.TransportError"))
    ELSE IF reply.net = "status" THEN Raise(HTTPException(reply.status, <<"NetBox error body">>))
    ELSE Return(reply.body)

nb_get(reply) == nb_request(reply)
nb_post(reply) == nb_request(reply)
nb_options(reply) == nb_request(reply)

\* The log entry of one request that went out.
Call(ch, target, arg, reply) == [ch |-> ch, target |-> target, arg |-> arg, reply |-> reply]

\* History after an mcp_invoke: the request always goes out.
McpSent(tool, arg, reply) ==
    /\ calls' = Append(calls, Call("mcp", tool, arg, reply))
    /\ sentMcp' = sentMcp + 1
    /\ UNCHANGED sentRest

\* History after an nb_* call: the request goes out only if the guard passed.
NbSent(path, arg, reply) ==
    /\ calls' = IF NbConfigured THEN Append(calls, Call("rest", path, arg, reply)) ELSE calls
    /\ sentRest' = IF NbConfigured THEN sentRest + 1 ELSE sentRest
    /\ UNCHANGED sentMcp

NoResult == [kind |-> "none", exc |-> NoErr, val |-> <<>>]
Returned(v) == [kind |-> "return", exc |-> NoErr, val |-> v]
Failed(e) == [kind |-> "raise", exc |-> e, val |-> <<>>]


\* ------------------------------------------------------------ JSON bodies
\* A JSON value that is no object: .get on it raises AttributeError.
NotADict == [notdict |-> TRUE]
IsDict(x) == "notdict" \notin DOMAIN x
\* x.get(k) or dflt, for an object x
GetOr(x, k, dflt) == IF k \in DOMAIN x THEN x[k] ELSE dflt

EntityIds == {11, 12}
Entity(i) == [id |-> i]
\* the "results" arrays a list endpoint may answer with (limit=1 is only a hint)
ResultLists == {<<>>, <<Entity(11)>>, <<Entity(12), Entity(11)>>}
\* bridge bodies are {result: <payload>}; REST bodies are the payload itself
McpQueryReplies ==
    {Ok([result |-> [results |-> l]]) : l \in ResultLists}
        \cup {Ok([result |-> NotADict])} \cup McpFailures
RestQueryReplies ==
    {Ok([results |-> l]) : l \in ResultLists} \cup {Ok(NotADict)} \cup RestFailures

\* (unwrap_result(res) or {}).get("results") or []   -- raises on a non-object
ResultsOf(x) == IF IsDict(x) THEN Return(GetOr(x, "results", <<>>)) ELSE Raise(OtherException("AttributeError"))

\* ------------------------------------------------ resolve_one_mcp_or_rest
\* "if lst: return lst[0]"
LastOf(lst) == lst[Len(lst)]
FirstOf(lst) == lst[1]

\* The filters of the list are identified by their position 1..try_filters.
ResolverEnter(tool, path, n) ==
    /\ mcp_tool' = tool
    /\ rest_path' = path
    /\ try_filters' = n
    /\ fi' = 1
    /\ last_err' = NoErr
    /\ resolved' = NoResult
    /\ calls' = <<>>
    /\ pc' = IF n = 0 THEN "res_gate" ELSE "res_mcp"

resolve_mcp_loop_no_break ==
    /\ pc = "res_mcp"
    /\ \E reply \in McpQueryReplies :
        LET o == mcp_invoke(reply)
            r == IF Raised(o) THEN o ELSE ResultsOf(unwrap_result(o.val))
        IN  /\ McpSent(mcp_tool, fi, reply)
            /\ IF ~Raised(r) /\ r.val # <<>>
               THEN /\ resolved' = Returned(FirstOf(r.val))
                    /\ pc' = "res_ret"
                    /\ UNCHANGED <<fi, last_err>>
               ELSE /\ last_err' = IF Raised(r) THEN r.exc ELSE last_err
                    /\ fi' = fi + 1
                    /\ pc' = IF fi + 1 > try_filters THEN "res_gate" ELSE "res_mcp"
                    /\ UNCHANGED resolved
    /\ UNCHANGED <<cfgVars, suspended, op, result, mcp_tool, rest_path, try_filters, prepareVars, batchVars, choiceVars, deviceVars>>

\* for f in try_filters: one bridge query per filter, until a match or a failure
resolve_mcp_loop ==
    /\ pc = "res_mcp"
    /\ \E reply \in McpQueryReplies :
        LET o == mcp_invoke(reply)
            r == IF Raised(o) THEN o ELSE ResultsOf(unwrap_result(o.val))
        IN  /\ McpSent(mcp_tool, fi, reply)
            /\ IF Raised(r)
               THEN /\ last_err' = r.exc
                    /\ pc' = "res_gate"
                    /\ UNCHANGED <<fi, resolved>>
               ELSE IF r.val # <<>>
               THEN /\ resolved' = Returned(FirstOf(r.val))
                    /\ pc' = "res_ret"
                    /\ UNCHANGED <<fi, last_err>>
               ELSE /\ fi' = fi + 1
                    /\ pc' = IF fi + 1 > try_filters THEN "res_gate" ELSE "res_mcp"
                    /\ UNCHANGED <<last_err, resolved>>
    /\ UNCHANGED <<cfgVars, suspended, op, result, mcp_tool, rest_path, try_filters, prepareVars, batchVars, choiceVars, deviceVars>>

\* if NETBOX_DIRECT_BASE and NETBOX_TOKEN: the REST phase is entered or skipped
resolve_rest_gate ==
    /\ pc = "res_gate"
    /\ fi' = 1
    /\ pc' = IF Truthy(NETBOX_DIRECT_BASE) /\ Truthy(NETBOX_TOKEN) /\ try_filters > 0
             THEN "res_rest" ELSE "res_end"
    /\ UNCHANGED <<cfgVars, suspended, op, result, calls, sentMcp, sentRest, mcp_tool, rest_path,
                   try_filters, last_err, resolved, prepareVars, batchVars, choiceVars, deviceVars>>

resolve_rest_loop_break ==
    /\ pc = "res_rest"
    /\ \E reply \in RestQueryReplies :
        LET o == nb_get(reply)
            r == IF Raised(o) THEN o ELSE ResultsOf(o.val)
        IN  /\ NbSent(rest_path, fi, reply)
            /\ IF Raised(r)
               THEN /\ last_err' = r.exc
                    /\ pc' = "res_end"
                    /\ UNCHANGED <<fi, resolved>>
               ELSE IF r.val # <<>>
               THEN /\ resolved' = Returned(FirstOf(r.val))
                    /\ pc' = "res_ret"
                    /\ UNCHANGED <<fi, last_err>>
               ELSE /\ fi' = fi + 1
                    /\ pc' = IF fi + 1 > try_filters THEN "res_end" ELSE "res_rest"
                    /\ UNCHANGED <<last_err, resolved>>
    /\ UNCHANGED <<cfgVars, suspended, op, result, mcp_tool, rest_path, try_filters, prepareVars, batchVars, choiceVars, deviceVars>>

\* for f in try_filters: one REST GET per filter; a failure is recorded and skipped
resolve_rest_loop ==
    /\ pc = "res_rest"
    /\ \E reply \in RestQueryReplies :
        LET o == nb_get(reply)
            r == IF Raised(o) THEN o ELSE ResultsOf(o.val)
        IN  /\ NbSent(rest_path, fi, reply)
            /\ IF ~Raised(r) /\ r.val # <<>>
               THEN /\ resolved' = Returned(FirstOf(r.val))
                    /\ pc' = "res_ret"
                    /\ UNCHANGED <<fi, last_err>>
               ELSE /\ last_err' = IF Raised(r) THEN r.exc ELSE last_err
                    /\ fi' = fi + 1
                    /\ pc' = IF fi + 1 > try_filters THEN "res_end" ELSE "res_rest"
                    /\ UNCHANGED resolved
    /\ UNCHANGED <<cfgVars, suspended, op, result, mcp_tool, rest_path, try_filters, prepareVars, batchVars, choiceVars, deviceVars>>

resolve_raise_not_found ==
    /\ pc = "res_end"
    /\ resolved' = Failed(HTTPException(404, <<"Object not found via", mcp_tool, rest_path>>))
    /\ pc' = "res_ret"
    /\ UNCHANGED <<cfgVars, suspended, op, result, calls, sentMcp, sentRest, mcp_tool, rest_path,
                   try_filters, fi, last_err, prepareVars, batchVars, choiceVars, deviceVars>>

\* if last_err: raise last_err; raise HTTPException(404, ...)
resolve_raise ==
    /\ pc = "res_end"
    /\ resolved' = IF last_err # NoErr THEN Failed(last_err)
                   ELSE Failed(HTTPException(404, <<"Object not found via", mcp_tool, rest_path>>))
    /\ pc' = "res_ret"
    /\ UNCHANGED <<cfgVars, suspended, op, result, calls, sentMcp, sentRest, mcp_tool, rest_path,
                   try_filters, fi, last_err, prepareVars, batchVars, choiceVars, deviceVars>>

\* A direct call of the resolver with a filter list of any length up to MaxFilters.
resolve_return ==
    /\ op = "resolve_one_mcp_or_rest"
    /\ pc = "res_ret"
    /\ result' = resolved
    /\ pc' = "done"
    /\ UNCHANGED <<cfgVars, suspended, op, calls, sentMcp, sentRest, resolverVars, prepareVars, batchVars, choiceVars, deviceVars>>

\* ------------------------------------------------------------ prepare_device
\* A body field is absent (body.get gives None), the empty string, or a value.
ABSENT == "ABSENT"
Get(b, k) == IF b[k] = ABSENT THEN "None" ELSE b[k]
required == <<"name", "site", "role", "device_type">>

RECURSIVE MissingFirst(_, _)
MissingFirst(b, i) ==
    IF i > Len(required) THEN <<>>
    ELSE IF ~Truthy(Get(b, required[i])) THEN <<required[i]>>
    ELSE MissingFirst(b, i + 1)

RECURSIVE Missing(_, _)
\* [k for k in required[i..] if not body.get(k)]
Missing(b, i) ==
    IF i > Len(required) THEN <<>>
    ELSE IF ~Truthy(Get(b, required[i])) THEN <<required[i]>> \o Missing(b, i + 1)
    ELSE Missing(b, i + 1)

\* the references resolved in turn, with the bridge tool and REST path of each
StageTool(s) ==
    CASE s = "site" -> "netbox_get_sites"
      [] s = "role" -> "netbox_get_device_roles"
      [] s = "manufacturer" -> "netbox_get_manufacturers"
      [] s = "device_type" -> "netbox_get_device_types"
StagePath(s) ==
    CASE s = "site" -> "/api/dcim/sites/"
      [] s = "role" -> "/api/dcim/device-roles/"
      [] s = "manufacturer" -> "/api/dcim/manufacturers/"
      [] s = "device_type" -> "/api/dcim/device-types/"
\* every try_filters tuple of prepare_device has two filters (name or model, then slug)
PrepareFilters == 2

NoIds == [site_id |-> 0, role_id |-> 0, manufacturer_id |-> 0, device_type_id |-> 0]

\* required-field validation, then the first resolution is started
prepare_validate ==
    /\ \/ op = "prepare_device" /\ pc = "start"
       \/ op = "create_device" /\ pc = "prepare"
    /\ LET missing == Missing(body, 1)
       IN  IF missing # <<>>
           THEN /\ result' = Failed(HTTPException(400, <<"Missing fields">> \o missing))
                /\ pc' = "done"
                /\ UNCHANGED <<calls, resolverVars, stage>>
           ELSE /\ stage' = "site"
                /\ ResolverEnter(StageTool("site"), StagePath("site"), PrepareFilters)
                /\ UNCHANGED result
    /\ UNCHANGED <<cfgVars, suspended, op, sentMcp, sentRest, body, ids, device_payload, batchVars, choiceVars, deviceVars>>

NextStage(s, b) ==
    CASE s = "site" -> "role"
      [] s = "role" -> IF Truthy(Get(b, "manufacturer")) THEN "manufacturer" ELSE "device_type"
      [] s = "manufacturer" -> "device_type"
      [] s = "device_type" -> "build"

\* (body.get("status") or "active").lower()
Lower(s) ==
    CASE s = "PLANNED" -> "planned"
      [] s = "LC" -> "lc"
      [] s = "Lc" -> "lc"
      [] s = "SC" -> "sc"
      [] OTHER -> s

OptionalKeys == {"serial", "rack", "position", "face"}

PayloadRoleOnce(b, i) ==
    [k \in {"name", "site", "device_role", "role", "device_type", "status"}
            \cup {k \in OptionalKeys : b[k] # ABSENT} |->
        CASE k = "name" -> b.name
          [] k = "site" -> i.site_id
          [] k = "device_role" -> i.site_id
          [] k = "role" -> i.role_id
          [] k = "device_type" -> i.device_type_id
          [] k = "status" -> Lower(IF Truthy(Get(b, "status")) THEN b.status ELSE "active")
          [] OTHER -> b[k]]

\* the payload dict of prepare_device
Payload(b, i) ==
    [k \in {"name", "site", "device_role", "role", "device_type", "status"}
            \cup {k \in OptionalKeys : b[k] # ABSENT} |->
        CASE k = "name" -> b.name
          [] k = "site" -> i.site_id
          [] k = "device_role" -> i.role_id
          [] k = "role" -> i.role_id
          [] k = "device_type" -> i.device_type_id
          [] k = "status" -> Lower(IF Truthy(Get(b, "status")) THEN b.status ELSE "active")
          [] OTHER -> b[k]]

\* a resolution came back: its failure ends the request, its id is kept and
\* the next reference is resolved; after the last one the payload is returned
prepare_resolved ==
    /\ op \in {"prepare_device", "create_device"}
    /\ pc = "res_ret"
    /\ IF resolved.kind = "raise"
       THEN /\ result' = resolved
            /\ pc' = "done"
            /\ UNCHANGED <<calls, resolverVars, stage, ids, device_payload>>
       ELSE LET ids2 == [ids EXCEPT ![stage \o "_id"] = resolved.val.id]
                nxt == NextStage(stage, body)
            IN  /\ ids' = ids2
                /\ stage' = nxt
                /\ IF nxt = "build"
                   THEN /\ device_payload' = Payload(body, ids2)
                        /\ IF op = "prepare_device"
                           THEN /\ result' = Returned([ready_to_post |-> TRUE,
                                                       payload |-> Payload(body, ids2),
                                                       resolved |-> ids2])
                                /\ pc' = "done"
                           ELSE /\ pc' = "create"
                                /\ UNCHANGED result
                        /\ UNCHANGED <<calls, resolverVars>>
                   ELSE /\ ResolverEnter(StageTool(nxt), StagePath(nxt), PrepareFilters)
                        /\ UNCHANGED <<result, device_payload>>
    /\ UNCHANGED <<cfgVars, suspended, op, sentMcp, sentRest, body, batchVars, choiceVars, deviceVars>>

\* ------------------------------------------------------------ batch creators
\* An item is a JSON object: a record over the keys it carries.
Has(it, k) == k \in DOMAIN it
KeyError(k) == OtherException("KeyError " \o k)
\* int(x): the decimal strings convert, anything else raises ValueError
ToInt(x) == IF x = "2" THEN Return(2) ELSE Raise(OtherException("ValueError"))

\* the payload dict literal of create_interfaces; it["name"], it["type"] raise KeyError
InterfacePayload(dev, it) ==
    IF ~Has(it, "name") THEN Raise(KeyError("name"))
    ELSE IF ~Has(it, "type") THEN Raise(KeyError("type"))
    ELSE Return([k \in {"device", "name", "type"}
                     \cup (IF Has(it, "description") /\ Truthy(it.description) THEN {"description"} ELSE {}) |->
                 CASE k = "device" -> dev
                   [] k = "name" -> it.name
                   [] k = "type" -> Lower(it.type)
                   [] OTHER -> it.description])

\* the payload dict literal of create_rear_ports; positions defaults to 1
RearPortPayload(dev, it) ==
    IF ~Has(it, "name") THEN Raise(KeyError("name"))
    ELSE IF ~Has(it, "type") THEN Raise(KeyError("type"))
    ELSE LET pos == IF Has(it, "positions") THEN ToInt(it.positions) ELSE Return(1)
         IN  IF Raised(pos) THEN pos
             ELSE Return([device |-> dev, name |-> it.name, type |-> Lower(it.type),
                          positions |-> pos.val])

\* the payload dict of create_front_ports; device is added only when given
FrontPortPayload(dev, it) ==
    IF ~Has(it, "name") THEN Raise(KeyError("name"))
    ELSE IF ~Has(it, "type") THEN Raise(KeyError("type"))
    ELSE IF ~Has(it, "rear_port_id") THEN Raise(KeyError("rear_port_id"))
    ELSE LET pos == IF Has(it, "rear_port_position") THEN ToInt(it.rear_port_position) ELSE Return(1)
         IN  IF Raised(pos) THEN pos
             ELSE Return([k \in {"name", "type", "rear_port", "rear_port_position"}
                              \cup (IF dev # 0 THEN {"device"} ELSE {}) |->
                          CASE k = "name" -> it.name
                            [] k = "type" -> it.type
                            [] k = "rear_port" -> it.rear_port_id
                            [] k = "rear_port_position" -> pos.val
                            [] OTHER -> dev])

BatchOps == {"create_interfaces", "create_rear_ports", "create_front_ports"}
BuildPayload(o, dev, it) ==
    CASE o = "create_interfaces" -> InterfacePayload(dev, it)
      [] o = "create_rear_ports" -> RearPortPayload(dev, it)
      [] o = "create_front_ports" -> FrontPortPayload(dev, it)
BulkTool(o) ==
    CASE o = "create_interfaces" -> "netbox_create_interfaces"
      [] o = "create_rear_ports" -> "netbox_create_rear_ports"
      [] o = "create_front_ports" -> "netbox_create_front_ports"
ItemTool(o) ==
    CASE o = "create_interfaces" -> "netbox_create_interface"
      [] o = "create_rear_ports" -> "netbox_create_rear_port"
      [] o = "create_front_ports" -> "netbox_create_front_port"
ItemPath(o) ==
    CASE o = "create_interfaces" -> "/api/dcim/interfaces/"
      [] o = "create_rear_ports" -> "/api/dcim/rear-ports/"
      [] o = "create_front_ports" -> "/api/dcim/front-ports/"
AllFailedDetail(o) ==
    CASE o = "create_interfaces" -> "All interface creates failed"
      [] o = "create_rear_ports" -> "All rear-port creates failed"
      [] o = "create_front_ports" -> "All front-port creates failed"

\* the peer's answers to a create: the created object, or a failure
McpCreateReplies == {Ok([result |-> [id |-> 101]])} \cup McpFailures
RestCreateReplies == {Ok([id |-> 102])} \cup RestFailures

\* if not device_id or not isinstance(items, list) or not items: raise 400
\* (create_front_ports does not require device_id)
BatchInvalidTypeOnly(o) ==
    IF o = "create_front_ports" THEN items_type # "list"
    ELSE device_id = 0 \/ items_type # "list"

\* not device_id or not isinstance(items, list) or not items
\* (create_front_ports does not require device_id)
BatchInvalid(o) ==
    IF o = "create_front_ports" THEN items_type # "list" \/ items = <<>>
    ELSE device_id = 0 \/ items_type # "list" \/ items = <<>>

\* validation, then the bulk bridge call: its result is returned as-is; only an
\* HTTPException is caught and leads to the per-item loop
BatchBulk(o) ==
    /\ op = o
    /\ pc = "start"
    /\ IF BatchInvalid(o)
       THEN /\ result' = Failed(HTTPException(400,
                    IF o = "create_front_ports" THEN <<"front_ports[] is required">>
                    ELSE <<"device_id and the item list are required">>))
            /\ pc' = "done"
            /\ UNCHANGED <<calls, sentMcp, sentRest>>
       ELSE \E reply \in McpCreateReplies :
            LET r == mcp_invoke(reply)
            IN  /\ McpSent(BulkTool(o), 0, reply)
                /\ IF ~Raised(r)
                   THEN result' = Returned(unwrap_result(r.val)) /\ pc' = "done"
                   ELSE IF r.exc.type = "HTTPException"
                   THEN result' = result /\ pc' = "item"
                   ELSE result' = Failed(r.exc) /\ pc' = "done"
    /\ UNCHANGED <<cfgVars, suspended, op, resolverVars, prepareVars, batchVars, choiceVars, deviceVars>>

\* after the last item: raise if everything failed, else return the BatchResult
BatchFinish(o, cr, er) ==
    IF er # <<>> /\ cr = <<>>
    THEN Failed(HTTPException(502, <<AllFailedDetail(o)>>) @@ [errors |-> er])
    ELSE Returned([ok |-> TRUE, created |-> cr, errors |-> er])

\* what follows the handling of item idx: the next item, or the end of the loop
BatchAdvance(o, cr, er) ==
    /\ created' = cr
    /\ errors' = er
    /\ idx' = idx + 1
    /\ IF idx + 1 > Len(items)
       THEN result' = BatchFinish(o, cr, er) /\ pc' = "done"
       ELSE result' = result /\ pc' = "item"

\* errors.append({"input": it, "error": getattr(e, "detail", str(e))})
ErrorEntry(e) == [input |-> idx, item |-> items[idx], error |-> e.detail]
\* created.append(obj); input is the position of the item the object was created for
CreatedEntry(obj) == [input |-> idx, obj |-> obj]

\* one pass of the loop up to the bridge create: the payload is built outside
\* the try, so a KeyError / ValueError there leaves the handler; a bridge
\* HTTPException leads to the REST create, any other exception is the item's error
BatchItemMcp(o) ==
    /\ op = o
    /\ pc = "item"
    /\ LET payload == BuildPayload(o, device_id, items[idx])
       IN  IF Raised(payload)
           THEN /\ result' = Failed(payload.exc)
                /\ pc' = "done"
                /\ UNCHANGED <<calls, sentMcp, sentRest, idx, created, errors>>
           ELSE \E reply \in McpCreateReplies :
                LET r == mcp_invoke(reply)
                IN  /\ McpSent(ItemTool(o), idx, reply)
                    /\ IF ~Raised(r)
                       THEN BatchAdvance(o, Append(created, CreatedEntry(unwrap_result(r.val))), errors)
                       ELSE IF r.exc.type = "HTTPException"
                       THEN /\ pc' = "item_rest"
                            /\ UNCHANGED <<result, idx, created, errors>>
                       ELSE BatchAdvance(o, created, Append(errors, ErrorEntry(r.exc)))
    /\ UNCHANGED <<cfgVars, suspended, op, resolverVars, prepareVars, device_id, items, items_type, choiceVars, deviceVars>>

BatchItemRestSwallow(o) ==
    /\ op = o
    /\ pc = "item_rest"
    /\ \E reply \in RestCreateReplies :
        LET r == nb_post(reply)
        IN  /\ NbSent(ItemPath(o), idx, reply)
            /\ IF ~Raised(r)
               THEN BatchAdvance(o, Append(created, CreatedEntry(r.val)), errors)
               ELSE BatchAdvance(o, created, errors)
    /\ UNCHANGED <<cfgVars, suspended, op, resolverVars, prepareVars, device_id, items, items_type, choiceVars, deviceVars>>

\* except HTTPException: created.append(await nb_post(...)); any exception of
\* nb_post is the item's error
BatchItemRest(o) ==
    /\ op = o
    /\ pc = "item_rest"
    /\ \E reply \in RestCreateReplies :
        LET r == nb_post(reply)
        IN  /\ NbSent(ItemPath(o), idx, reply)
            /\ IF ~Raised(r)
               THEN BatchAdvance(o, Append(created, CreatedEntry(r.val)), errors)
               ELSE BatchAdvance(o, created, Append(errors, ErrorEntry(r.exc)))
    /\ UNCHANGED <<cfgVars, suspended, op, resolverVars, prepareVars, device_id, items, items_type, choiceVars, deviceVars>>

create_interfaces == BatchBulk("create_interfaces")
create_interfaces_item == BatchItemMcp("create_interfaces")
create_interfaces_item_rest == BatchItemRest("create_interfaces")
create_rear_ports == BatchBulk("create_rear_ports")
create_rear_ports_item == BatchItemMcp("create_rear_ports")
create_rear_ports_item_rest == BatchItemRest("create_rear_ports")
create_front_ports == BatchBulk("create_front_ports")
create_front_ports_item == BatchItemMcp("create_front_ports")
create_front_ports_item_rest == BatchItemRest("create_front_ports")

\* ------------------------------------------------------------ choices
Fields == <<"interface_types", "rear_port_types", "front_port_types">>
VendorKey(key) ==
    CASE key = "interface_types" -> "interface:type"
      [] key = "rear_port_types" -> "rearport:type"
      [] key = "front_port_types" -> "frontport:type"

_fallback_choices ==
    [interface_types |-> <<[value |-> "virtual", label |-> "Virtual"],
                           [value |-> "1000base-t", label |-> "1G Copper (1000BASE-T)"],
                           [value |-> "10gbase-x-sfpp", label |-> "10G SFP+"]>>,
     rear_port_types |-> <<[value |-> "8p8c", label |-> "8P8C (RJ45)"], [value |-> "lc", label |-> "LC"]>>,
     front_port_types |-> <<[value |-> "8p8c", label |-> "8P8C (RJ45)"], [value |-> "lc", label |-> "LC"]>>]

\* x.get(k) or "" for a string-valued key of an object
StrOr(x, k) == IF Has(x, k) THEN x[k] ELSE ""

RECURSIVE _norm_list(_)
\* value = str(x.get("value")).lower(): a missing value becomes "none";
\* label = label or display or display_name or value
_norm_list(lst) ==
    IF lst = <<>> THEN <<>>
    ELSE LET x == Head(lst)
             value == Lower(IF Has(x, "value") THEN x.value ELSE "None")
             label == IF StrOr(x, "label") # "" THEN x.label
                      ELSE IF StrOr(x, "display") # "" THEN x.display
                      ELSE IF StrOr(x, "display_name") # "" THEN x.display_name
                      ELSE value
         IN  (IF value # "" THEN <<[value |-> value, label |-> label]>> ELSE <<>>)
                 \o _norm_list(Tail(lst))

\* _norm_list calls x.get on every entry: an entry that is no object raises
AllDicts(lst) == \A i \in 1..Len(lst) : IsDict(lst[i])

RECURSIVE Concat(_, _)
\* the items of field key of all sources, in source order: src.get(key) or []
Concat(srcs, key) ==
    IF srcs = <<>> THEN <<>> ELSE GetOr(Head(srcs), key, <<>>) \o Concat(Tail(srcs), key)

ValuesOf(lst) == {lst[i].value : i \in 1..Len(lst)}

RECURSIVE SeenLast(_, _)
SeenLast(lst, seen) ==
    IF lst = <<>> THEN seen
    ELSE LET item == Head(lst)
             v == Lower(StrOr(item, "value"))
             e == [value |-> v, label |-> IF StrOr(item, "label") # "" THEN item.label ELSE v]
         IN  IF v = "" THEN SeenLast(Tail(lst), seen)
             ELSE IF v \in ValuesOf(seen)
             THEN SeenLast(Tail(lst), [i \in 1..Len(seen) |-> IF seen[i].value = v THEN e ELSE seen[i]])
             ELSE SeenLast(Tail(lst), Append(seen, e))

RECURSIVE SeenFirst(_, _)
\* the loop body of _merge_choice_sources: an item whose lower-cased value is
\* empty or already seen is skipped, else it is stored with label or value
SeenFirst(lst, seen) ==
    IF lst = <<>> THEN seen
    ELSE LET item == Head(lst)
             v == Lower(StrOr(item, "value"))
         IN  IF v = "" \/ v \in ValuesOf(seen)
             THEN SeenFirst(Tail(lst), seen)
             ELSE SeenFirst(Tail(lst),
                     Append(seen, [value |-> v, label |-> IF StrOr(item, "label") # "" THEN item.label ELSE v]))

\* _merge_choice_sources: item.get on an entry that is no object raises
_merge_choice_sources(srcs) ==
    IF \E i \in 1..Len(Fields) : ~AllDicts(Concat(srcs, Fields[i]))
    THEN Raise(OtherException("AttributeError"))
    ELSE Return([key \in {Fields[i] : i \in 1..Len(Fields)} |-> SeenFirst(Concat(srcs, key), <<>>)])

\* not any(merged.values())
AllEmpty(cat) == \A i \in 1..Len(Fields) : cat[Fields[i]] = <<>>

\* a source in the vendor-keyed shape, normalised field by field
NormVendor(src) ==
    IF \E i \in 1..Len(Fields) : ~AllDicts(GetOr(src, VendorKey(Fields[i]), <<>>))
    THEN Raise(OtherException("AttributeError"))
    ELSE Return([key \in {Fields[i] : i \in 1..Len(Fields)} |-> _norm_list(GetOr(src, VendorKey(key), <<>>))])

\* maybe_norm: a result that already has a target key passes through unchanged
maybe_norm(src) ==
    IF ~IsDict(src) THEN Raise(OtherException("AttributeError"))
    ELSE IF \E i \in 1..Len(Fields) : Has(src, Fields[i]) THEN Return(src)
    ELSE NormVendor(src)

\* opts_to(src, "type"): the choices of the type field of the POST action
opts_to(src) ==
    IF ~IsDict(src) THEN Raise(OtherException("AttributeError"))
    ELSE LET post == GetOr(GetOr(src, "actions", [none |-> 0]), "POST", [none |-> 0])
             f == GetOr(post, "type", [none |-> 0])
             lst == GetOr(f, "choices", <<>>)
         IN  IF AllDicts(lst) THEN Return(_norm_list(lst)) ELSE Raise(OtherException("AttributeError"))

\* what the peers answer to the choice queries
BridgeItem == [value |-> "LC", label |-> "Fiber LC"]
RestItem == [value |-> "lc", label |-> ""]
OptionsItem == [value |-> "SC", display_name |-> "SC opt"]
Catalog(a, b, c) == [interface_types |-> a, rear_port_types |-> b, front_port_types |-> c]
Vendor(a, b, c) == ("interface:type" :> a) @@ ("rearport:type" :> b) @@ ("frontport:type" :> c)
EmptyDict == [none |-> 0]
McpChoiceReplies ==
    {Ok([result |-> Catalog(a, b, c)]) : a, b, c \in {<<>>, <<BridgeItem>>}}
        \cup {Ok([result |-> [interface_types |-> <<NotADict>>]]),
              Ok([result |-> Vendor(<<BridgeItem>>, <<>>, <<>>)]),
              Ok([result |-> Vendor(<<NotADict>>, <<>>, <<>>)]),
              Ok([result |-> EmptyDict]),
              Ok([result |-> NotADict])}
        \cup McpFailures
RestChoiceReplies ==
    {Ok(Vendor(a, b, c)) : a, b, c \in {<<>>, <<RestItem>>}} \cup {Ok(NotADict)} \cup RestFailures
OptionsReplies ==
    {Ok([actions |-> [POST |-> [type |-> [choices |-> l]]]]) : l \in {<<>>, <<OptionsItem>>}}
        \cup {Ok([name |-> "Interface List"])} \cup RestFailures
OptionsPaths == <<"/api/dcim/interfaces/", "/api/dcim/rear-ports/", "/api/dcim/front-ports/">>

\* "res = unwrap_result(data) or {}; if res:" -- an empty object adds no source
IsEmptyDict(x) == x = EmptyDict

\* 1) the bridge choices tool; only HTTPException is caught
list_choices_mcp ==
    /\ op = "list_choices"
    /\ pc = "start"
    /\ \E reply \in McpChoiceReplies :
        LET o == mcp_invoke(reply)
            res == unwrap_result(o.val)
            src == IF Raised(o) THEN o
                   ELSE IF IsEmptyDict(res) THEN Return(EmptyDict)
                   ELSE maybe_norm(res)
        IN  /\ McpSent("netbox_get_choices", 0, reply)
            /\ IF Raised(src) /\ src.exc.type # "HTTPException"
               THEN /\ result' = Failed(src.exc)
                    /\ pc' = "done"
                    /\ UNCHANGED sources
               ELSE /\ sources' = IF Raised(src) \/ IsEmptyDict(src.val) THEN sources
                                  ELSE Append(sources, src.val)
                    /\ pc' = "rest_choices"
                    /\ UNCHANGED result
    /\ UNCHANGED <<cfgVars, suspended, op, resolverVars, prepareVars, batchVars, opts, merged, deviceVars>>

\* 2) the REST bulk-choices endpoint; every exception is swallowed
list_choices_rest ==
    /\ op = "list_choices"
    /\ pc = "rest_choices"
    /\ \E reply \in RestChoiceReplies :
        LET o == nb_get(reply)
            src == IF Raised(o) THEN o
                   ELSE IF ~IsDict(o.val) THEN Raise(OtherException("AttributeError"))
                   ELSE NormVendor(o.val)
        IN  /\ NbSent("/api/dcim/_choices/", 0, reply)
            /\ sources' = IF Raised(src) THEN sources ELSE Append(sources, src.val)
    /\ pc' = "options"
    /\ UNCHANGED <<cfgVars, suspended, op, result, resolverVars, prepareVars, batchVars, opts, merged, deviceVars>>

\* 3) the three OPTIONS calls; the first exception ends the block without a
\* source; after the third answer the source is built with opts_to
list_choices_options ==
    /\ op = "list_choices"
    /\ pc = "options"
    /\ \E reply \in OptionsReplies :
        LET o == nb_options(reply)
            got == Append(opts, o.val)
            lists == [i \in 1..3 |-> opts_to(got[i])]
        IN  /\ NbSent(OptionsPaths[Len(opts) + 1], 0, reply)
            /\ IF Raised(o)
               THEN pc' = "merge" /\ UNCHANGED <<opts, sources>>
               ELSE IF Len(got) < 3
               THEN pc' = "options" /\ opts' = got /\ UNCHANGED sources
               ELSE /\ pc' = "merge"
                    /\ opts' = got
                    /\ sources' = IF \E i \in 1..3 : Raised(lists[i]) THEN sources
                                  ELSE Append(sources, Catalog(lists[1].val, lists[2].val, lists[3].val))
    /\ UNCHANGED <<cfgVars, suspended, op, result, resolverVars, prepareVars, batchVars, merged, deviceVars>>

list_choices_merge_no_defaults ==
    /\ op = "list_choices"
    /\ pc = "merge"
    /\ LET m == _merge_choice_sources(sources)
       IN  /\ merged' = m
           /\ result' = IF Raised(m) THEN Failed(m.exc) ELSE Returned(m.val)
    /\ pc' = "done"
    /\ UNCHANGED <<cfgVars, suspended, op, calls, sentMcp, sentRest, resolverVars, prepareVars, batchVars,
                   sources, opts, deviceVars>>

\* merged = _merge_choice_sources(sources); the defaults replace an all-empty catalog
list_choices_merge ==
    /\ op = "list_choices"
    /\ pc = "merge"
    /\ LET m == _merge_choice_sources(sources)
       IN  /\ merged' = m
           /\ result' = IF Raised(m) THEN Failed(m.exc)
                        ELSE IF AllEmpty(m.val) THEN Returned(_fallback_choices)
                        ELSE Returned(m.val)
    /\ pc' = "done"
    /\ UNCHANGED <<cfgVars, suspended, op, calls, sentMcp, sentRest, resolverVars, prepareVars, batchVars,
                   sources, opts, deviceVars>>

\* ------------------------------------------------------------ device_with_ports
\* device.isdigit()
IsDigit(d) == d \in {"42"}

SlugOrNamePreferName(x, k) ==
    LET ref == GetOr(x, k, EmptyDict)
    IN  IF StrOr(ref, "name") # "" THEN ref.name
        ELSE IF Has(ref, "slug") THEN ref.slug ELSE "None"

\* (x.get(k) or {}).get("slug") or (x.get(k) or {}).get("name")
SlugOrName(x, k) ==
    LET ref == GetOr(x, k, EmptyDict)
    IN  IF StrOr(ref, "slug") # "" THEN ref.slug
        ELSE IF Has(ref, "name") THEN ref.name ELSE "None"
\* (x.get("device_type") or {}).get("model")
ModelOf(x) ==
    LET ref == GetOr(x, "device_type", EmptyDict)
    IN  IF Has(ref, "model") THEN ref.model ELSE "None"

\* the slim summary dict
Summary(obj) ==
    [id |-> obj.id,
     name |-> IF Has(obj, "name") THEN obj.name ELSE "None",
     site |-> SlugOrName(obj, "site"),
     role |-> SlugOrName(obj, "role"),
     device_type |-> ModelOf(obj)]

\* the device objects the peers may answer with
FullRef == [slug |-> "slug-a", name |-> "Name A", model |-> "Model A"]
NameRef == [slug |-> "", name |-> "Name B", model |-> "Model B"]
DevObjs ==
    {[id |-> 11, name |-> "cam1", site |-> FullRef, role |-> FullRef, device_type |-> FullRef],
     [id |-> 12, name |-> "cam1", site |-> NameRef, role |-> NameRef, device_type |-> NameRef],
     [id |-> 13, name |-> "cam1"],
     [id |-> 14, name |-> "cam1", site |-> [name |-> "Name C"], role |-> [name |-> "Name C"],
      device_type |-> [name |-> "Name C"]]}
DeviceLists ==
    {<<>>} \cup {<<d>> : d \in DevObjs}
        \cup {<<[id |-> 12, name |-> "cam1"], [id |-> 11, name |-> "cam1"]>>}
McpDeviceReplies ==
    {Ok([result |-> d]) : d \in DevObjs} \cup {Ok([result |-> EmptyDict])} \cup McpFailures
RestDeviceReplies == {Ok(d) : d \in DevObjs} \cup RestFailures
McpDevicesReplies ==
    {Ok([result |-> [results |-> l]]) : l \in DeviceLists}
        \cup {Ok([result |-> NotADict])} \cup McpFailures
PortLists == {<<>>, <<[id |-> 1]>>}
McpPortReplies ==
    {Ok([result |-> [results |-> l]]) : l \in PortLists}
        \cup {Ok([result |-> [count |-> 0]]), Ok([result |-> NotADict])} \cup McpFailures
PortTools == <<"netbox_get_interfaces", "netbox_get_front_ports", "netbox_get_rear_ports">>

\* dev_id = dev_obj["id"], then the port fetches begin
DeviceResolved(obj) ==
    IF Has(obj, "id")
    THEN result' = result /\ dev_obj' = obj /\ pc' = "ports"
    ELSE result' = Failed(KeyError("id")) /\ dev_obj' = obj /\ pc' = "done"

\* the numeric branch: the bridge by id; only HTTPException leads to REST
device_with_ports_by_id ==
    /\ op = "device_with_ports"
    /\ pc = "start"
    /\ IsDigit(device)
    /\ \E reply \in McpDeviceReplies :
        LET o == mcp_invoke(reply)
        IN  /\ McpSent("netbox_get_device", 0, reply)
            /\ IF ~Raised(o)
               THEN DeviceResolved(unwrap_result(o.val)) /\ UNCHANGED last_err
               ELSE IF o.exc.type = "HTTPException"
               THEN last_err' = o.exc /\ pc' = "id_rest" /\ UNCHANGED <<result, dev_obj>>
               ELSE result' = Failed(o.exc) /\ pc' = "done" /\ UNCHANGED <<last_err, dev_obj>>
    /\ UNCHANGED <<cfgVars, suspended, op, mcp_tool, rest_path, try_filters, fi, resolved, prepareVars,
                   batchVars, choiceVars, device, site, ports>>

\* the REST fallback by id: any failure re-raises the bridge's exception e
device_with_ports_by_id_rest ==
    /\ op = "device_with_ports"
    /\ pc = "id_rest"
    /\ \E reply \in RestDeviceReplies :
        LET o == nb_get(reply)
        IN  /\ NbSent("/api/dcim/devices/42/", 0, reply)
            /\ IF Raised(o)
               THEN result' = Failed(last_err) /\ pc' = "done" /\ UNCHANGED dev_obj
               ELSE DeviceResolved(o.val)
    /\ UNCHANGED <<cfgVars, suspended, op, resolverVars, prepareVars, batchVars, choiceVars, device, site, ports>>

\* the retry guard of the name branch: "if not lst and not site"
RetryWanted(lst, st) == lst = <<>> /\ ~Truthy(st)

NameAnsweredNoCheck(lst, mayRetry) ==
    IF mayRetry /\ RetryWanted(lst, site)
    THEN pc' = "retry" /\ UNCHANGED <<result, dev_obj>>
    ELSE IF lst = <<>>
    THEN /\ result' = Failed(OtherException("IndexError"))
         /\ pc' = "done"
         /\ UNCHANGED dev_obj
    ELSE DeviceResolved(lst[1])

\* what follows a name query that answered with lst
NameAnswered(lst, mayRetry) ==
    IF mayRetry /\ RetryWanted(lst, site)
    THEN pc' = "retry" /\ UNCHANGED <<result, dev_obj>>
    ELSE IF lst = <<>>
    THEN /\ result' = Failed(HTTPException(404,
                <<"Device not found", device, IF Truthy(site) THEN site ELSE "-">>))
         /\ pc' = "done"
         /\ UNCHANGED dev_obj
    ELSE DeviceResolved(lst[1])

\* the name branch: filters = {name, limit: 1} plus site when given; the call
\* is outside any try.  arg 1 marks a query carrying the site filter.
device_with_ports_by_name ==
    /\ op = "device_with_ports"
    /\ pc = "start"
    /\ ~IsDigit(device)
    /\ \E reply \in McpDevicesReplies :
        LET o == mcp_invoke(reply)
            r == IF Raised(o) THEN o ELSE ResultsOf(unwrap_result(o.val))
        IN  /\ McpSent("netbox_get_devices", IF Truthy(site) THEN 1 ELSE 0, reply)
            /\ IF Raised(r)
               THEN result' = Failed(r.exc) /\ pc' = "done" /\ UNCHANGED dev_obj
               ELSE NameAnswered(r.val, TRUE)
    /\ UNCHANGED <<cfgVars, suspended, op, resolverVars, prepareVars, batchVars, choiceVars, device, site, ports>>

\* "try again without site": the second query {name, limit: 1}
device_with_ports_retry ==
    /\ op = "device_with_ports"
    /\ pc = "retry"
    /\ \E reply \in McpDevicesReplies :
        LET o == mcp_invoke(reply)
            r == IF Raised(o) THEN o ELSE ResultsOf(unwrap_result(o.val))
        IN  /\ McpSent("netbox_get_devices", 0, reply)
            /\ IF Raised(r)
               THEN result' = Failed(r.exc) /\ pc' = "done" /\ UNCHANGED dev_obj
               ELSE NameAnswered(r.val, FALSE)
    /\ UNCHANGED <<cfgVars, suspended, op, resolverVars, prepareVars, batchVars, choiceVars, device, site, ports>>

device_with_ports_ports_swallow ==
    /\ op = "device_with_ports"
    /\ pc = "ports"
    /\ \E reply \in McpPortReplies :
        LET o == mcp_invoke(reply)
            r == IF Raised(o) THEN o ELSE ResultsOf(unwrap_result(o.val))
            got == Append(ports, IF Raised(r) THEN <<>> ELSE r.val)
        IN  /\ McpSent(PortTools[Len(ports) + 1], dev_obj.id, reply)
            /\ IF Len(got) < 3
               THEN pc' = "ports" /\ ports' = got /\ UNCHANGED result
               ELSE /\ ports' = got
                    /\ pc' = "done"
                    /\ result' = Returned([device |-> Summary(dev_obj), interfaces |-> got[1],
                                           front_ports |-> got[2], rear_ports |-> got[3]])
    /\ UNCHANGED <<cfgVars, suspended, op, resolverVars, prepareVars, batchVars, choiceVars, device, site, dev_obj>>

\* unwrap_result(await mcp_invoke(tool, ...)).get("results", []): interfaces,
\* front ports, rear ports in turn; any exception leaves the handler
device_with_ports_ports ==
    /\ op = "device_with_ports"
    /\ pc = "ports"
    /\ \E reply \in McpPortReplies :
        LET o == mcp_invoke(reply)
            r == IF Raised(o) THEN o ELSE ResultsOf(unwrap_result(o.val))
            got == Append(ports, r.val)
        IN  /\ McpSent(PortTools[Len(ports) + 1], dev_obj.id, reply)
            /\ IF Raised(r)
               THEN result' = Failed(r.exc) /\ pc' = "done" /\ UNCHANGED ports
               ELSE IF Len(got) < 3
               THEN pc' = "ports" /\ ports' = got /\ UNCHANGED result
               ELSE /\ ports' = got
                    /\ pc' = "done"
                    /\ result' = Returned([device |-> Summary(dev_obj), interfaces |-> got[1],
                                           front_ports |-> got[2], rear_ports |-> got[3]])
    /\ UNCHANGED <<cfgVars, suspended, op, resolverVars, prepareVars, batchVars, choiceVars, device, site, dev_obj>>

\* ------------------------------------------------------------ create_device
\* payload = body.get("payload"); if not payload: prepared = await prepare_device(body)
create_device_start ==
    /\ op = "create_device"
    /\ pc = "start"
    /\ IF Has(body, "payload") /\ ~IsEmptyDict(body.payload)
       THEN device_payload' = body.payload /\ pc' = "create"
       ELSE device_payload' = device_payload /\ pc' = "prepare"
    /\ UNCHANGED <<cfgVars, suspended, op, result, calls, sentMcp, sentRest, resolverVars, body, stage, ids,
                   batchVars, choiceVars, deviceVars>>

\* MCP first; "except HTTPException as mcp_err" keeps mcp_err in last_err
create_device_mcp ==
    /\ op = "create_device"
    /\ pc = "create"
    /\ \E reply \in McpCreateReplies :
        LET r == mcp_invoke(reply)
        IN  /\ McpSent("netbox_create_device", 0, reply)
            /\ IF ~Raised(r)
               THEN result' = Returned(unwrap_result(r.val)) /\ pc' = "done" /\ UNCHANGED last_err
               ELSE IF r.exc.type = "HTTPException"
               THEN last_err' = r.exc /\ pc' = "create_rest" /\ UNCHANGED result
               ELSE result' = Failed(r.exc) /\ pc' = "done" /\ UNCHANGED last_err
    /\ UNCHANGED <<cfgVars, suspended, op, mcp_tool, rest_path, try_filters, fi, resolved, prepareVars,
                   batchVars, choiceVars, deviceVars>>

\* the error of create_device when both creates failed:
\* HTTPException(status, {"detail": detail, "last_mcp_error": last_mcp_error})
BothFailed(status, detail, last_mcp_error) ==
    HTTPException(status, detail) @@ [last_mcp_error |-> last_mcp_error]

create_device_rest_forward ==
    /\ op = "create_device"
    /\ pc = "create_rest"
    /\ \E reply \in RestCreateReplies :
        LET r == nb_post(reply)
        IN  /\ NbSent("/api/dcim/devices/", 0, reply)
            /\ result' = IF ~Raised(r) THEN Returned(r.val) ELSE Failed(r.exc)
    /\ pc' = "done"
    /\ UNCHANGED <<cfgVars, suspended, op, resolverVars, prepareVars, batchVars, choiceVars, deviceVars>>

\* the REST create; "except HTTPException as rest_err" forwards its status,
\* "except Exception" raises 502; both carry last_mcp_error
create_device_rest ==
    /\ op = "create_device"
    /\ pc = "create_rest"
    /\ \E reply \in RestCreateReplies :
        LET r == nb_post(reply)
        IN  /\ NbSent("/api/dcim/devices/", 0, reply)
            /\ result' = IF ~Raised(r) THEN Returned(r.val)
                         ELSE IF r.exc.type = "HTTPException"
                         THEN Failed(BothFailed(r.exc.status, r.exc.detail, last_err.detail))
                         ELSE Failed(BothFailed(502, r.exc.detail, last_err.detail))
    /\ pc' = "done"
    /\ UNCHANGED <<cfgVars, suspended, op, resolverVars, prepareVars, batchVars, choiceVars, deviceVars>>

\* ------------------------------------------------------------ list lookups
\* list_sites, list_device_roles, list_manufacturers, list_device_types and
\* list_devices_by_site: one bridge call, then the REST path(s) of the handler
ListOps == {"list_sites", "list_device_roles", "list_manufacturers", "list_device_types",
            "list_devices_by_site"}
ListTool(o) ==
    CASE o = "list_sites" -> "netbox_get_sites"
      [] o = "list_device_roles" -> "netbox_get_device_roles"
      [] o = "list_manufacturers" -> "netbox_get_manufacturers"
      [] o = "list_device_types" -> "netbox_get_device_types"
      [] o = "list_devices_by_site" -> "netbox_get_devices"
ListPaths(o) ==
    CASE o = "list_sites" -> <<"/api/dcim/sites/">>
      [] o = "list_device_roles" -> <<"/api/dcim/device-roles/", "/api/dcim/roles/">>
      [] o = "list_manufacturers" -> <<"/api/dcim/manufacturers/">>
      [] o = "list_device_types" -> <<"/api/dcim/device-types/">>
      [] o = "list_devices_by_site" -> <<"/api/dcim/devices/">>
\* the position of a handler at its k-th REST attempt
ListPc(k) == IF k = 1 THEN "list_rest" ELSE "list_rest_alt"

\* try: return unwrap_result(await mcp_invoke(tool, params))
\* except HTTPException as e: -> the REST attempts; e is kept in last_err
ListMcp(o) ==
    /\ op = o
    /\ pc = "start"
    /\ \E reply \in McpQueryReplies :
        LET r == mcp_invoke(reply)
        IN  /\ McpSent(ListTool(o), 1, reply)
            /\ IF ~Raised(r)
               THEN result' = Returned(unwrap_result(r.val)) /\ pc' = "done" /\ UNCHANGED last_err
               ELSE IF r.exc.type = "HTTPException"
               THEN last_err' = r.exc /\ pc' = ListPc(1) /\ UNCHANGED result
               ELSE result' = Failed(r.exc) /\ pc' = "done" /\ UNCHANGED last_err
    /\ UNCHANGED <<cfgVars, suspended, op, mcp_tool, rest_path, try_filters, fi, resolved, prepareVars,
                   batchVars, choiceVars, deviceVars>>

ListRestOwnError(o, k) ==
    /\ op = o
    /\ pc = ListPc(k)
    /\ \E reply \in RestQueryReplies :
        LET r == nb_get(reply)
        IN  /\ NbSent(ListPaths(o)[k], 1, reply)
            /\ IF ~Raised(r)
               THEN result' = Returned(r.val) /\ pc' = "done"
               ELSE IF k < Len(ListPaths(o))
               THEN pc' = ListPc(k + 1) /\ UNCHANGED result
               ELSE result' = Failed(r.exc) /\ pc' = "done"
    /\ UNCHANGED <<cfgVars, suspended, op, resolverVars, prepareVars, batchVars, choiceVars, deviceVars>>

\* try: return await nb_get(path, params)
\* except Exception: the next path if the handler has one, else raise e
ListRest(o, k) ==
    /\ op = o
    /\ pc = ListPc(k)
    /\ \E reply \in RestQueryReplies :
        LET r == nb_get(reply)
        IN  /\ NbSent(ListPaths(o)[k], 1, reply)
            /\ IF ~Raised(r)
               THEN result' = Returned(r.val) /\ pc' = "done"
               ELSE IF k < Len(ListPaths(o))
               THEN pc' = ListPc(k + 1) /\ UNCHANGED result
               ELSE result' = Failed(last_err) /\ pc' = "done"
    /\ UNCHANGED <<cfgVars, suspended, op, resolverVars, prepareVars, batchVars, choiceVars, deviceVars>>

list_sites == ListMcp("list_sites") \/ ListRest("list_sites", 1)
list_device_roles ==
    \/ ListMcp("list_device_roles")
    \/ ListRest("list_device_roles", 1)
    \/ ListRest("list_device_roles", 2)
list_manufacturers == ListMcp("list_manufacturers") \/ ListRest("list_manufacturers", 1)
list_device_types == ListMcp("list_device_types") \/ ListRest("list_device_types", 1)
list_devices_by_site == ListMcp("list_devices_by_site") \/ ListRest("list_devices_by_site", 1)

\* ------------------------------------------------------------ the requests
\* the optional fields are given together or not at all
Optionals == {[status |-> ABSENT, extra |-> ABSENT], [status |-> "PLANNED", extra |-> "1"]}
Bodies ==
    { [name |-> n, site |-> s, role |-> r, device_type |-> d, manufacturer |-> m,
       status |-> o.status, serial |-> o.extra, rack |-> o.extra, position |-> o.extra,
       face |-> o.extra] :
        n \in {ABSENT, "cam1"}, s \in {ABSENT, "", "hq"}, r \in {ABSENT, "", "camera"},
        d \in {ABSENT, "", "fx9"}, m \in {ABSENT, "sony"}, o \in Optionals }

InitCommon ==
    /\ NETBOX_DIRECT_BASE \in EnvValues
    /\ NETBOX_TOKEN \in EnvValues
    /\ result = NoResult
    /\ calls = <<>>
    /\ sentMcp = 0
    /\ sentRest = 0
    /\ last_err = NoErr
    /\ resolved = NoResult
    /\ ids = NoIds
    /\ idx = 1
    /\ created = <<>>
    /\ errors = <<>>
    /\ opts = <<>>
    /\ merged = Return(<<>>)
    /\ dev_obj = EmptyDict
    /\ ports = <<>>

SeqsUpTo(S, n) == UNION {[1..k -> S] : k \in 0..n}

InterfaceItems ==
    {[name |-> "eth1", type |-> "LC", description |-> "IN"], [type |-> "LC"], [name |-> "eth1"]}
RearPortItems ==
    {[name |-> "rp1", type |-> "LC"], [name |-> "rp1", type |-> "LC", positions |-> "x"], [type |-> "LC"]}
FrontPortItems ==
    {[name |-> "fp1", type |-> "LC", rear_port_id |-> "5"], [name |-> "fp1", type |-> "LC"],
     [name |-> "fp1", type |-> "LC", rear_port_id |-> "5", rear_port_position |-> "x"]}
ItemsOf(o) ==
    CASE o = "create_interfaces" -> InterfaceItems
      [] o = "create_rear_ports" -> RearPortItems
      [] o = "create_front_ports" -> FrontPortItems

\* type(body.get(key)): the key is missing, or holds a list, or a non-empty object
ItemTypes == {"NoneType", "list", "dict"}
NoBatch == device_id = 0 /\ items = <<>> /\ items_type = "NoneType"
NoChoices == sources = <<>>
NoDevice == device = "" /\ site = "None"
NoPrepare == body = [name |-> ABSENT] /\ stage = "none" /\ device_payload = EmptyDict
NoResolver == mcp_tool = "" /\ rest_path = "" /\ try_filters = 0 /\ fi = 1

InitBatch ==
    /\ op \in BatchOps
    /\ pc = "start"
    /\ device_id \in {0, 7}
    /\ items_type \in ItemTypes
    /\ items \in IF items_type = "list" THEN SeqsUpTo(ItemsOf(op), MaxItems) ELSE {<<>>}
    /\ NoPrepare
    /\ NoResolver
    /\ NoChoices
    /\ NoDevice

InitDevice ==
    /\ op = "device_with_ports"
    /\ pc = "start"
    /\ device \in {"42", "cam1"}
    /\ site \in {"None", "", "hq"}
    /\ NoPrepare
    /\ NoResolver
    /\ NoBatch
    /\ NoChoices

InitChoices ==
    /\ op = "list_choices"
    /\ pc = "start"
    /\ NoPrepare
    /\ NoResolver
    /\ NoBatch
    /\ NoChoices
    /\ NoDevice

InitResolve ==
    /\ op = "resolve_one_mcp_or_rest"
    /\ mcp_tool = "netbox_get_sites"
    /\ rest_path = "/api/dcim/sites/"
    /\ try_filters \in 0..MaxFilters
    /\ fi = 1
    /\ pc = IF try_filters = 0 THEN "res_gate" ELSE "res_mcp"
    /\ NoPrepare
    /\ NoBatch
    /\ NoChoices
    /\ NoDevice

InitPrepare ==
    /\ op = "prepare_device"
    /\ pc = "start"
    /\ body \in Bodies
    /\ stage = "none"
    /\ device_payload = EmptyDict
    /\ NoResolver
    /\ NoBatch
    /\ NoChoices
    /\ NoDevice

InitList ==
    /\ op \in ListOps
    /\ pc = "start"
    /\ NoPrepare
    /\ NoResolver
    /\ NoBatch
    /\ NoChoices
    /\ NoDevice

\* the bodies of create_device: a ready payload, an empty payload object, or
\* none, over a body with every reference and over one without device_type
GivenPayload == [name |-> "cam1", site |-> 11, role |-> 12, device_type |-> 11]
CreateBodies ==
    {b \in Bodies : /\ b.name = "cam1" /\ b.site = "hq" /\ b.role = "camera"
                    /\ b.device_type \in {ABSENT, "fx9"} /\ b.manufacturer = ABSENT
                    /\ b.status = ABSENT}
InitCreate ==
    /\ op = "create_device"
    /\ pc = "start"
    /\ body \in CreateBodies
            \cup {[payload |-> p] @@ b : p \in {EmptyDict, GivenPayload}, b \in CreateBodies}
    /\ stage = "none"
    /\ device_payload = EmptyDict
    /\ NoResolver
    /\ NoBatch
    /\ NoChoices
    /\ NoDevice

\* no second request
NoFrame == [op |-> "none", pc |-> "done"]

Init ==
    /\ suspended = NoFrame
    /\ InitCommon /\ (InitResolve \/ InitPrepare \/ InitBatch \/ InitChoices \/ InitDevice \/ InitList
                   \/ InitCreate)

Next ==
    \/ resolve_mcp_loop
    \/ resolve_rest_gate
    \/ resolve_rest_loop
    \/ resolve_raise
    \/ resolve_return
    \/ prepare_validate
    \/ prepare_resolved
    \/ create_interfaces
    \/ create_interfaces_item
    \/ create_interfaces_item_rest
    \/ create_rear_ports
    \/ create_rear_ports_item
    \/ create_rear_ports_item_rest
    \/ create_front_ports
    \/ create_front_ports_item
    \/ create_front_ports_item_rest
    \/ list_choices_mcp
    \/ list_choices_rest
    \/ list_choices_options
    \/ list_choices_merge
    \/ device_with_ports_by_id
    \/ device_with_ports_by_id_rest
    \/ device_with_ports_by_name
    \/ device_with_ports_retry
    \/ device_with_ports_ports
    \/ list_sites
    \/ list_device_roles
    \/ list_manufacturers
    \/ list_device_types
    \/ list_devices_by_site
    \/ create_device_start
    \/ create_device_mcp
    \/ create_device_rest

Spec == Init /\ [][Next]_vars

\* ------------------------------------------- _merge_choice_sources on its own
\* list_choices hands over at most three sources
NumSources == 3
MergeItems == {[value |-> "LC", label |-> "Fiber LC"], [value |-> "lc", label |-> "lc rest"],
               [value |-> "SC"]}
\* a source carries one list under the keys it has; a missing key reads as []
MergeKeys == {{"interface_types", "rear_port_types"}, {"rear_port_types", "front_port_types"}}
MergeCatalogs ==
    {[k \in ks |-> l] : ks \in MergeKeys, l \in SeqsUpTo(MergeItems, MaxChoices) \ {<<>>}}
        \cup {Catalog(<<>>, <<>>, <<>>)}

InitMerge ==
    /\ InitCommon
    /\ suspended = NoFrame
    /\ NETBOX_DIRECT_BASE = "None"
    /\ NETBOX_TOKEN = "None"
    /\ op = "merge"
    /\ pc = "start"
    /\ sources \in SeqsUpTo(MergeCatalogs, NumSources)
    /\ NoPrepare
    /\ NoResolver
    /\ NoBatch
    /\ NoDevice

merge_apply ==
    /\ op = "merge"
    /\ pc = "start"
    /\ merged' = _merge_choice_sources(sources)
    /\ pc' = "done"
    /\ UNCHANGED <<cfgVars, suspended, op, result, calls, sentMcp, sentRest, resolverVars, prepareVars,
                   batchVars, sources, opts, deviceVars>>

NextMerge == merge_apply

SpecMerge == InitMerge /\ [][NextMerge]_vars


\* ------------------------------------------------- two requests in flight
\* The event loop runs one handler at a time and may switch to another at
\* every await.  The variables above are the locals of the running handler;
\* suspended holds the locals of the one that waits.
Frame ==
    [op |-> op, pc |-> pc, result |-> result, calls |-> calls, sentMcp |-> sentMcp,
     sentRest |-> sentRest, mcp_tool |-> mcp_tool, rest_path |-> rest_path,
     try_filters |-> try_filters, fi |-> fi, last_err |-> last_err, resolved |-> resolved,
     body |-> body, stage |-> stage, ids |-> ids, device_payload |-> device_payload,
     device_id |-> device_id, items |-> items, items_type |-> items_type, idx |-> idx,
     created |-> created, errors |-> errors, sources |-> sources, opts |-> opts,
     merged |-> merged, device |-> device, site |-> site, dev_obj |-> dev_obj,
     ports |-> ports]

yield_to_other_shared ==
    /\ suspended.op # "none"
    /\ suspended.pc # "done"
    /\ op' = suspended.op
    /\ pc' = suspended.pc
    /\ result' = suspended.result
    /\ calls' = suspended.calls
    /\ sentMcp' = suspended.sentMcp
    /\ sentRest' = suspended.sentRest
    /\ mcp_tool' = suspended.mcp_tool
    /\ rest_path' = suspended.rest_path
    /\ try_filters' = suspended.try_filters
    /\ fi' = suspended.fi
    /\ resolved' = suspended.resolved
    /\ body' = suspended.body
    /\ stage' = suspended.stage
    /\ ids' = suspended.ids
    /\ device_payload' = suspended.device_payload
    /\ device_id' = suspended.device_id
    /\ items' = suspended.items
    /\ items_type' = suspended.items_type
    /\ idx' = suspended.idx
    /\ sources' = suspended.sources
    /\ opts' = suspended.opts
    /\ merged' = suspended.merged
    /\ device' = suspended.device
    /\ site' = suspended.site
    /\ dev_obj' = suspended.dev_obj
    /\ ports' = suspended.ports
    /\ suspended' = Frame
    /\ UNCHANGED <<cfgVars, last_err, created, errors>>

\* a switch at an await: the locals of the two handlers change places, the
\* module-level names stay
yield_to_other ==
    /\ suspended.op # "none"
    /\ suspended.pc # "done"
    /\ op' = suspended.op
    /\ pc' = suspended.pc
    /\ result' = suspended.result
    /\ calls' = suspended.calls
    /\ sentMcp' = suspended.sentMcp
    /\ sentRest' = suspended.sentRest
    /\ mcp_tool' = suspended.mcp_tool
    /\ rest_path' = suspended.rest_path
    /\ try_filters' = suspended.try_filters
    /\ fi' = suspended.fi
    /\ last_err' = suspended.last_err
    /\ resolved' = suspended.resolved
    /\ body' = suspended.body
    /\ stage' = suspended.stage
    /\ ids' = suspended.ids
    /\ device_payload' = suspended.device_payload
    /\ device_id' = suspended.device_id
    /\ items' = suspended.items
    /\ items_type' = suspended.items_type
    /\ idx' = suspended.idx
    /\ created' = suspended.created
    /\ errors' = suspended.errors
    /\ sources' = suspended.sources
    /\ opts' = suspended.opts
    /\ merged' = suspended.merged
    /\ device' = suspended.device
    /\ site' = suspended.site
    /\ dev_obj' = suspended.dev_obj
    /\ ports' = suspended.ports
    /\ suspended' = Frame
    /\ UNCHANGED cfgVars

\* the two requests: a resolution with the two filters every caller of the
\* resolver passes, or create_interfaces for device 7 with one of two item lists
PairItems ==
    {<<[name |-> "eth1", type |-> "LC", description |-> "IN"]>>,
     <<[name |-> "eth1", type |-> "LC", description |-> "IN"], [type |-> "LC"]>>}
InitPairRunning ==
    /\ InitCommon
    /\ NoPrepare
    /\ NoChoices
    /\ NoDevice
    /\ \/ /\ op = "resolve_one_mcp_or_rest"
          /\ mcp_tool = "netbox_get_sites"
          /\ rest_path = "/api/dcim/sites/"
          /\ try_filters = PrepareFilters
          /\ fi = 1
          /\ pc = "res_mcp"
          /\ NoBatch
       \/ /\ op = "create_interfaces"
          /\ pc = "start"
          /\ device_id = 7
          /\ items_type = "list"
          /\ items \in PairItems
          /\ NoResolver
\* the second request starts as the first one does, and waits
InitPair ==
    /\ InitPairRunning
    /\ suspended \in
        {[Frame EXCEPT !.op = "resolve_one_mcp_or_rest", !.pc = "res_mcp",
                       !.mcp_tool = "netbox_get_sites", !.rest_path = "/api/dcim/sites/",
                       !.try_filters = PrepareFilters, !.device_id = 0, !.items = <<>>,
                       !.items_type = "NoneType"]}
        \cup {[Frame EXCEPT !.op = "create_interfaces", !.pc = "start", !.mcp_tool = "",
                            !.rest_path = "", !.try_filters = 0, !.device_id = 7,
                            !.items = its, !.items_type = "list"] : its \in PairItems}

NextPair ==
    \/ resolve_mcp_loop
    \/ resolve_rest_gate
    \/ resolve_rest_loop
    \/ resolve_raise
    \/ resolve_return
    \/ create_interfaces
    \/ create_interfaces_item
    \/ create_interfaces_item_rest
    \/ yield_to_other

SpecPair == InitPair /\ [][NextPair]_vars


\* =================================================================== claims
ResolverOps == {"resolve_one_mcp_or_rest", "prepare_device"}
Configured == Truthy(NETBOX_DIRECT_BASE) /\ Truthy(NETBOX_TOKEN)
FieldSet == {Fields[i] : i \in 1..Len(Fields)}

\* the results array of a logged query, or <<>> when the call failed
HitOf(c) ==
    IF c.reply.net # "2xx" THEN <<>>
    ELSE LET b == IF c.ch = "mcp" THEN c.reply.body.result ELSE c.reply.body
         IN  IF IsDict(b) THEN GetOr(b, "results", <<>>) ELSE <<>>

\* the exception a logged query ended with inside the resolver, or NoErr
FailureOf(c) ==
    IF c.reply.net = "transport" THEN OtherException("httpx.TransportError")
    ELSE IF c.reply.net = "status"
    THEN (IF c.ch = "mcp" THEN HTTPException(502, <<"MCP call failed">>)
          ELSE HTTPException(c.reply.status, <<"NetBox error body">>))
    ELSE LET b == IF c.ch = "mcp" THEN c.reply.body.result ELSE c.reply.body
         IN  IF IsDict(b) THEN NoErr ELSE OtherException("AttributeError")

\* C1: in resolve_one_mcp_or_rest the queries go out in the order bridge
\* filter 1, 2, ... then REST filter 1, 2, ...; a query that yields a
\* non-empty result is the last query made, and the entity returned is the
\* first element of that result: the match of the earliest matching filter on
\* the channel that answered, no later filter being queried on any channel.
C1_FirstMatchWins ==
    op \in ResolverOps =>
        /\ \A j \in 1..Len(calls) : HitOf(calls[j]) # <<>> => j = Len(calls)
        /\ calls # <<>> => calls[1].ch = "mcp" /\ calls[1].arg = 1
        /\ \A j \in 1..(Len(calls) - 1) :
            /\ calls[j].ch = "rest" => calls[j + 1].ch = "rest"
            /\ calls[j + 1].arg = IF calls[j].ch = calls[j + 1].ch THEN calls[j].arg + 1 ELSE 1
        /\ \A j \in 1..Len(calls) : calls[j].arg \in 1..try_filters
        /\ resolved.kind = "return" =>
            /\ calls # <<>>
            /\ HitOf(calls[Len(calls)]) # <<>>
            /\ resolved.val = HitOf(calls[Len(calls)])[1]

\* C1 witness: both bridge queries and the first REST query gave nothing, the
\* second REST filter matched with two results and the first of them is returned
C1_Witness ==
    /\ op = "resolve_one_mcp_or_rest"
    /\ resolved.kind = "return"
    /\ Len(calls) = 4
    /\ calls[4].ch = "rest"
    /\ calls[4].arg = 2
    /\ Len(HitOf(calls[4])) = 2
    /\ resolved.val = Entity(12)

PerItemMode ==
    /\ op \in BatchOps
    /\ calls # <<>>
    /\ calls[1].reply.net = "status"

\* C3: a BatchResult returned from the per-item loop accounts for every item:
\* len(created) + len(errors) equals the length of the item list.
C3_CountsAddUp ==
    (PerItemMode /\ result.kind = "return") =>
        Len(result.val.created) + Len(result.val.errors) = Len(items)

\* C3 witness: a per-item batch of three returned with successes and failures
C3_Witness ==
    /\ PerItemMode
    /\ result.kind = "return"
    /\ Len(items) = 3
    /\ Len(result.val.created) >= 1
    /\ Len(result.val.errors) >= 1
    /\ \E i \in 1..Len(calls) : calls[i].ch = "rest" /\ calls[i].reply.net # "2xx"

InputsOf(lst) == {lst[i].input : i \in 1..Len(lst)}

\* C4 as stated: once the per-item loop has run to the handler's end, every
\* item of the batch was attempted and sits in created or in errors, whatever
\* made an item fail (a payload that cannot be built included).
C4_EveryItemAttempted ==
    (PerItemMode /\ pc = "done") =>
        \A i \in 1..Len(items) : i \in InputsOf(created) \cup InputsOf(errors)

\* the lowest index of lst whose lower-cased value is v
FirstWith(lst, v) ==
    CHOOSE k \in 1..Len(lst) :
        /\ Lower(StrOr(lst[k], "value")) = v
        /\ \A m \in 1..(k - 1) : Lower(StrOr(lst[m], "value")) # v

\* C5: in every field of the catalog _merge_choice_sources returns, no two
\* entries have the same value, every value is stored lower-cased, and the
\* label of an entry comes from the first item, in source order, that carries
\* the value (compared case-insensitively).
C5_UniqueFirstLabel ==
    (op = "merge" /\ pc = "done" /\ ~Raised(merged)) =>
        \A key \in FieldSet :
            LET out == merged.val[key]
                all == Concat(sources, key)
            IN  /\ \A i, j \in 1..Len(out) : out[i].value = out[j].value => i = j
                /\ \A i \in 1..Len(out) :
                    /\ out[i].value = Lower(out[i].value)
                    /\ \E k \in 1..Len(all) : Lower(StrOr(all[k], "value")) = out[i].value
                    /\ LET first == all[FirstWith(all, out[i].value)]
                       IN  out[i].label = IF StrOr(first, "label") # "" THEN first.label ELSE out[i].value
                /\ \A k \in 1..Len(all) :
                    StrOr(all[k], "value") # "" => Lower(all[k].value) \in ValuesOf(out)

\* C5 witness: a value is offered by two sources in different case and with
\* different labels, and the merge has kept the first label
C5_Witness ==
    /\ op = "merge"
    /\ pc = "done"
    /\ Len(sources) = 3
    /\ sources[1].rear_port_types = <<[value |-> "lc", label |-> "lc rest"]>>
    /\ sources[2].rear_port_types[1] = [value |-> "LC", label |-> "Fiber LC"]
    /\ merged.val.rear_port_types[1] = [value |-> "lc", label |-> "lc rest"]

\* no answer to a choice query carried a choice: every call failed or
\* answered with empty lists
NoChoiceOffered ==
    \A j \in 1..Len(calls) :
        \/ calls[j].reply.net # "2xx"
        \/ calls[j].reply.body \in {[result |-> EmptyDict], [result |-> Catalog(<<>>, <<>>, <<>>)],
                                    Vendor(<<>>, <<>>, <<>>), [name |-> "Interface List"],
                                    [actions |-> [POST |-> [type |-> [choices |-> <<>>]]]]}

C7_NeverFails ==
    op = "list_choices" => result.kind # "raise"

\* C8 as stated: a name lookup with a site filter whose bridge query came back
\* empty is followed by exactly one bridge query without the site filter.
C8_OneRetryWithoutSite ==
    (/\ op = "device_with_ports"
     /\ pc = "done"
     /\ ~IsDigit(device)
     /\ Truthy(site)
     /\ calls # <<>>
     /\ calls[1].reply.net = "2xx"
     /\ HitOf(calls[1]) = <<>>
     /\ IsDict(calls[1].reply.body.result)) =>
        Cardinality({j \in 1..Len(calls) :
            calls[j].target = "netbox_get_devices" /\ calls[j].arg = 0}) = 1

RequiredSet == {required[i] : i \in 1..Len(required)}
AnyMissing == \E k \in RequiredSet : body[k] \in {ABSENT, ""}

\* C9: prepare_device with a required field missing or empty sends no request
\* on either channel and ends with one HTTP 400 whose detail lists, in the
\* order name, site, role, device_type, all and only the missing fields.
C9_MissingFieldsReported ==
    (op = "prepare_device" /\ AnyMissing) =>
        /\ sentMcp = 0 /\ sentRest = 0 /\ calls = <<>>
        /\ pc \in {"start", "done"}
        /\ pc = "done" =>
            /\ result.kind = "raise"
            /\ result.exc.type = "HTTPException"
            /\ result.exc.status = 400
            /\ LET named == Tail(result.exc.detail)
               IN  /\ \A k \in RequiredSet :
                        (\E i \in 1..Len(named) : named[i] = k) <=> body[k] \in {ABSENT, ""}
                   /\ \A i, j \in 1..Len(named) : named[i] = named[j] => i = j

\* C9 witness: only device_type is missing and the error lists exactly it
C9_Witness ==
    /\ op = "prepare_device"
    /\ pc = "done"
    /\ body.name = "cam1" /\ body.site = "hq" /\ body.role = "camera"
    /\ body.device_type = ABSENT
    /\ result = Failed(HTTPException(400, <<"Missing fields", "device_type">>))

\* C10: while the REST base URL or the token is not configured no REST request
\* is sent by any handler: the resolver never enters its REST loop, and every
\* nb_post of a batch creator ends at once in the configuration error.
C10_NoRestWhenUnconfigured ==
    ~Configured =>
        /\ sentRest = 0
        /\ \A j \in 1..Len(calls) : calls[j].ch # "rest"
        /\ pc # "res_rest"
        /\ op \in BatchOps =>
            \A i \in 1..Len(errors) :
                errors[i].error \in {NotConfigured.detail, <<"httpx.TransportError">>}

\* C10 witness: with the token missing, an item whose bridge create failed
\* went to nb_post and was recorded with the configuration error
C10_Witness ==
    /\ op = "create_interfaces"
    /\ Truthy(NETBOX_DIRECT_BASE)
    /\ ~Truthy(NETBOX_TOKEN)
    /\ errors # <<>>
    /\ errors[1].error = NotConfigured.detail
    /\ sentRest = 0


\* C11 as stated: at the end of a request that went through the per-item loop,
\* if no item succeeded the handler raised the aggregate HTTP 502 carrying one
\* error per input item, and if at least one item succeeded it returned the
\* BatchResult with the created objects and the errors.
C11_AggregateOrPartial ==
    (PerItemMode /\ pc = "done") =>
        IF created = <<>>
        THEN /\ result.kind = "raise"
             /\ result.exc.status = 502
             /\ "errors" \in DOMAIN result.exc
             /\ InputsOf(result.exc.errors) = 1..Len(items)
        ELSE /\ result.kind = "return"
             /\ result.val.created = created
             /\ result.val.errors = errors

\* C12 as stated: the first call of a batch creator is the one bulk bridge
\* call; when it succeeds its result is returned and nothing else is called;
\* when it fails in any way (error status, timeout, connection failure) the
\* request does not fail with that failure but goes on to the per-item loop.
C12_BulkThenFallback ==
    (op \in BatchOps /\ calls # <<>>) =>
        /\ calls[1].ch = "mcp" /\ calls[1].target = BulkTool(op)
        /\ \A j \in 2..Len(calls) : calls[j].target # BulkTool(op)
        /\ calls[1].reply.net = "2xx" =>
            /\ Len(calls) = 1
            /\ result = Returned(calls[1].reply.body.result)
        /\ calls[1].reply.net # "2xx" =>
            ~(result.kind = "raise" /\ result.exc = mcp_invoke(calls[1].reply).exc)


\* C13 as stated: with a decimal device reference the device is asked of the
\* bridge by id; when that call fails, REST is asked by id (when configured);
\* when neither channel gives the device the request fails with HTTP 404.
C13_ByIdFallback ==
    (op = "device_with_ports" /\ IsDigit(device) /\ calls # <<>>) =>
        /\ calls[1].ch = "mcp" /\ calls[1].target = "netbox_get_device"
        /\ (calls[1].reply.net # "2xx" /\ pc # "id_rest") =>
            /\ Configured => (Len(calls) >= 2 /\ calls[2].ch = "rest")
            /\ (\A j \in 1..Len(calls) : calls[j].reply.net # "2xx") =>
                (result.kind = "raise" /\ result.exc.status = 404)


PortToolSet == {PortTools[i] : i \in 1..Len(PortTools)}
PortCalls == {j \in 1..Len(calls) : calls[j].target \in PortToolSet}

\* C14: in device_with_ports a port fetch that fails is the last call of the
\* request and the request ends with that very failure; a response is
\* returned only after the interfaces, front-ports and rear-ports fetches all
\* answered, and it carries the three result lists.
C14_PortFailureSurfaces ==
    op = "device_with_ports" =>
        /\ \A j \in PortCalls :
            FailureOf(calls[j]) # NoErr =>
                /\ j = Len(calls)
                /\ pc = "done"
                /\ result = Failed(FailureOf(calls[j]))
        /\ result.kind = "return" =>
            /\ Cardinality(PortCalls) = 3
            /\ \A j \in PortCalls : FailureOf(calls[j]) = NoErr
            /\ LET n == Len(calls)
               IN  /\ calls[n - 2].target = "netbox_get_interfaces"
                   /\ calls[n - 1].target = "netbox_get_front_ports"
                   /\ calls[n].target = "netbox_get_rear_ports"
                   /\ result.val.interfaces = HitOf(calls[n - 2])
                   /\ result.val.front_ports = HitOf(calls[n - 1])
                   /\ result.val.rear_ports = HitOf(calls[n])

\* C14 witness: the device was resolved, the interfaces were fetched, the
\* front-ports fetch answered an error status and the request raised its 502
C14_Witness ==
    /\ op = "device_with_ports"
    /\ pc = "done"
    /\ Len(calls) = 3
    /\ calls[2].target = "netbox_get_interfaces"
    /\ HitOf(calls[2]) # <<>>
    /\ calls[3].target = "netbox_get_front_ports"
    /\ calls[3].reply.net = "status"
    /\ result = Failed(HTTPException(502, <<"MCP call failed">>))


PayloadReturned == op = "prepare_device" /\ pc = "done" /\ result.kind = "return"
RoleResolved == op = "prepare_device" /\ stage = "role" /\ pc = "res_ret" /\ resolved.kind = "return"

\* C15: every payload returned by prepare_device has the keys device_role and
\* role with the same value, the role id kept by the request; that id is set
\* from the entity the resolver returned for the role reference and is not
\* changed by any other step.
C15_RoleUnderBothKeys ==
    /\ [](PayloadReturned =>
            /\ {"device_role", "role"} \subseteq DOMAIN result.val.payload
            /\ result.val.payload.device_role = ids.role_id
            /\ result.val.payload.role = ids.role_id
            /\ result.val.resolved.role_id = ids.role_id)
    /\ [][RoleResolved => ids'.role_id = resolved.val.id]_vars
    /\ [][(op = "prepare_device" /\ ~RoleResolved) => ids'.role_id = ids.role_id]_vars

\* C15 witness: a payload was returned whose role id differs from its site id
C15_Witness ==
    /\ PayloadReturned
    /\ result.val.payload.role = 12
    /\ result.val.payload.device_role = 12
    /\ result.val.payload.site = 11


\* C16: in one resolution, a bridge query that answered with zero results
\* and was not the last filter is followed by the bridge query of the next
\* filter; a bridge query that failed is followed by no bridge query: the
\* resolver is then at the REST phase, whose first query (when REST is
\* configured) is the REST query of filter 1.
C16_BridgeFailureEndsBridgePhase ==
    op \in ResolverOps =>
        \A j \in 1..Len(calls) :
            calls[j].ch = "mcp" =>
                /\ (FailureOf(calls[j]) = NoErr /\ HitOf(calls[j]) = <<>> /\ calls[j].arg < try_filters) =>
                    IF j < Len(calls)
                    THEN calls[j + 1].ch = "mcp" /\ calls[j + 1].arg = calls[j].arg + 1
                    ELSE pc = "res_mcp" /\ fi = calls[j].arg + 1
                /\ FailureOf(calls[j]) # NoErr =>
                    /\ \A k \in (j + 1)..Len(calls) : calls[k].ch = "rest"
                    /\ pc # "res_mcp"
                    /\ (j < Len(calls)) => calls[j + 1].arg = 1
                    /\ (j = Len(calls) /\ Configured) => pc \in {"res_gate", "res_rest"}

\* C16 witness: with two filters, the bridge query of filter 1 failed and the
\* next query is the REST query of filter 1
C16_Witness ==
    /\ op = "resolve_one_mcp_or_rest"
    /\ try_filters = 2
    /\ Len(calls) >= 2
    /\ calls[1].ch = "mcp"
    /\ calls[1].reply.net = "status"
    /\ calls[2].ch = "rest"
    /\ calls[2].arg = 1


\* C17 as stated: in per-item mode with REST configured, a bridge create that
\* failed in any way (error status or transport failure) is followed by the
\* REST create of the same item, a bridge create that succeeded is not, and
\* every recorded error belongs to an item for which both a bridge create and
\* a REST create were sent and failed.
C17_RestIffBridgeFailed ==
    (PerItemMode /\ Configured) =>
        /\ \A j \in 2..Len(calls) :
            calls[j].ch = "mcp" =>
                IF calls[j].reply.net # "2xx"
                THEN IF j < Len(calls)
                     THEN calls[j + 1].ch = "rest" /\ calls[j + 1].arg = calls[j].arg
                     ELSE pc = "item_rest"
                ELSE j < Len(calls) => calls[j + 1].ch = "mcp"
        /\ \A e \in 1..Len(errors) :
            /\ \E j \in 2..Len(calls) :
                calls[j].ch = "mcp" /\ calls[j].arg = errors[e].input /\ calls[j].reply.net # "2xx"
            /\ \E j \in 2..Len(calls) :
                calls[j].ch = "rest" /\ calls[j].arg = errors[e].input /\ calls[j].reply.net # "2xx"


RestCallsOf == {j \in 1..Len(calls) : calls[j].ch = "rest"}

\* C18: in a list lookup the first call is the bridge call and a REST call is
\* made only when that bridge call failed; the REST calls follow the paths of
\* the handler in order, each after the failure of the one before; and when
\* the lookup fails after a failed bridge call, whatever the REST attempts did
\* (unconfigured, error status, transport failure, both roles paths), the
\* failure raised is the failure of the bridge call.
C18_OriginalBridgeFailure ==
    op \in ListOps =>
        /\ calls # <<>> => calls[1].ch = "mcp" /\ calls[1].target = ListTool(op)
        /\ \A j \in RestCallsOf :
            /\ Raised(mcp_invoke(calls[1].reply))
            /\ calls[j].target = ListPaths(op)[j - 1]
            /\ j > 2 => Raised(nb_get(calls[j - 1].reply))
        /\ pc \in {"list_rest", "list_rest_alt"} => Raised(mcp_invoke(calls[1].reply))
        /\ result.kind = "raise" =>
            /\ result.exc = mcp_invoke(calls[1].reply).exc
            /\ \A j \in RestCallsOf : Raised(nb_get(calls[j].reply))
            /\ (Configured /\ result.exc.type = "HTTPException") =>
                Len(calls) = 1 + Len(ListPaths(op))

\* C18 witness: list_device_roles with REST configured; the bridge answered an
\* error status, the device-roles path a 400 and the roles path timed out: the
\* bridge's 502 is raised
C18_Witness ==
    /\ op = "list_device_roles"
    /\ pc = "done"
    /\ Len(calls) = 3
    /\ calls[2].reply.net = "status"
    /\ calls[3].target = "/api/dcim/roles/"
    /\ calls[3].reply.net = "transport"
    /\ result = Failed(HTTPException(502, <<"MCP call failed">>))


NoItemList == items_type # "list" \/ items = <<>>

\* C19: a batch creator whose item list is missing, not a list, or empty
\* never sends a request on any channel; its only step ends the request with
\* an HTTPException of status 400.
C19_EmptyListRejected ==
    (op \in BatchOps /\ NoItemList) =>
        /\ calls = <<>>
        /\ sentMcp = 0
        /\ sentRest = 0
        /\ pc \in {"start", "done"}
        /\ pc = "done" => (result.kind = "raise" /\ result.exc.type = "HTTPException"
                           /\ result.exc.status = 400)

\* C19 witness: create_rear_ports with a device id and an object where the
\* list is expected was rejected with 400
C19_Witness ==
    /\ op = "create_rear_ports"
    /\ device_id = 7
    /\ items_type = "dict"
    /\ pc = "done"
    /\ result.kind = "raise"
    /\ result.exc.status = 400
    /\ sentMcp = 0


\* the bridge, resp. the REST choices endpoint, answered and offered a value for field f
BridgeOffers(f) ==
    /\ calls[1].reply.net = "2xx"
    /\ LET r == calls[1].reply.body.result
       IN  \/ f \in DOMAIN r /\ r[f] = <<BridgeItem>>
           \/ VendorKey(f) \in DOMAIN r /\ r[VendorKey(f)] = <<BridgeItem>>
RestOffers(f) ==
    /\ calls[2].reply.net = "2xx"
    /\ VendorKey(f) \in DOMAIN calls[2].reply.body
    /\ calls[2].reply.body[VendorKey(f)] = <<RestItem>>
Listed(lst, v) == \E i \in 1..Len(lst) : lst[i].value = v

\* C20 as stated: with REST configured, a finished list_choices has queried
\* the bridge, the REST choices endpoint and the OPTIONS source whatever the
\* earlier sources did, it returns a catalog, and every value the bridge or
\* the REST choices endpoint offered for a field is listed, in the lower case
\* the merge gives every value, under that field.
C20_SourcesIndependent ==
    (op = "list_choices" /\ pc = "done" /\ Configured) =>
        /\ Len(calls) >= 3
        /\ calls[1].target = "netbox_get_choices"
        /\ calls[2].target = "/api/dcim/_choices/"
        /\ calls[3].target = OptionsPaths[1]
        /\ result.kind = "return"
        /\ \A f \in FieldSet :
            /\ BridgeOffers(f) => Listed(result.val[f], Lower(BridgeItem.value))
            /\ RestOffers(f) => Listed(result.val[f], Lower(RestItem.value))


SummaryReturned == op = "device_with_ports" /\ pc = "done" /\ result.kind = "return"
\* the slug of the object dev_obj refers to under k when it has a non-empty
\* one, else its name, else None
PreferSlug(k) ==
    IF ~Has(dev_obj, k) THEN "None"
    ELSE IF Has(dev_obj[k], "slug") /\ dev_obj[k].slug # "" THEN dev_obj[k].slug
    ELSE IF Has(dev_obj[k], "name") THEN dev_obj[k].name
    ELSE "None"

\* C21 as stated: the returned summary exposes slug-or-name, slug preferred,
\* for each of site, role and device type.
C21_SlugOrNameAll ==
    SummaryReturned =>
        \A k \in {"site", "role", "device_type"} : result.val.device[k] = PreferSlug(k)

\* C21 amended: the returned summary exposes slug-or-name, slug preferred, for
\* site and role; for the device type it exposes the model of the device type
\* (None when it has none), never its slug or name.
C21_SlugOrNameSiteRole ==
    SummaryReturned =>
        /\ \A k \in {"site", "role"} : result.val.device[k] = PreferSlug(k)
        /\ result.val.device.device_type =
             IF Has(dev_obj, "device_type") /\ Has(dev_obj.device_type, "model")
             THEN dev_obj.device_type.model ELSE "None"
        /\ result.val.device.id = dev_obj.id

\* C21 witness: a summary was returned for a device whose site has an empty
\* slug, so that the name is exposed
C21_Witness ==
    /\ SummaryReturned
    /\ dev_obj.id = 12
    /\ result.val.device.site = "Name B"
    /\ result.val.device.device_type = "Model B"


\* the last request sent was a device query by name that answered with no device
LastNameQueryEmpty ==
    /\ calls # <<>>
    /\ calls[Len(calls)].target = "netbox_get_devices"
    /\ FailureOf(calls[Len(calls)]) = NoErr
    /\ HitOf(calls[Len(calls)]) = <<>>

\* C22: in device_with_ports with a non-numeric reference, once the name
\* lookups have ended with an empty answer the request has failed with
\* HTTPException 404 whose detail names the device reference and the site
\* ("-" when none was given), at most two requests were sent, all of them
\* bridge device queries, and no REST request and no port fetch was made.
C22_NameNotFound ==
    (op = "device_with_ports" /\ ~IsDigit(device) /\ LastNameQueryEmpty) =>
        /\ pc \in {"retry", "done"}
        /\ pc = "retry" => Len(calls) = 1
        /\ pc = "done" =>
            /\ result = Failed(HTTPException(404,
                   <<"Device not found", device, IF Truthy(site) THEN site ELSE "-">>))
            /\ Len(calls) <= 2
            /\ sentMcp = Len(calls)
            /\ sentRest = 0
            /\ \A j \in 1..Len(calls) :
                calls[j].ch = "mcp" /\ calls[j].target = "netbox_get_devices"
            /\ ports = <<>>

\* C22 witness: no site was given, both name queries answered empty, and the
\* request failed with 404 naming the device and "-"
C22_Witness ==
    /\ op = "device_with_ports"
    /\ device = "cam1"
    /\ site = "None"
    /\ pc = "done"
    /\ Len(calls) = 2
    /\ LastNameQueryEmpty
    /\ result.kind = "raise"
    /\ result.exc.status = 404
    /\ result.exc.detail = <<"Device not found", "cam1", "-">>


RestFailed == {j \in 1..Len(calls) : calls[j].ch = "rest" /\ FailureOf(calls[j]) # NoErr}

\* C24: in the REST phase of a resolution, a REST query that failed or matched
\* nothing, and was not for the last filter, is followed by the REST query of
\* the next filter; the phase begins at filter 1; a resolution that returns
\* after a REST failure returns the first result of its last query; and one
\* that raises after a REST failure raises the failure of the last REST
\* query that failed, whatever the bridge had failed with.
C24_RestPhaseContinues ==
    op \in ResolverOps =>
        /\ \A j \in 1..Len(calls) :
            calls[j].ch = "rest" =>
                /\ (j = 1 \/ calls[j - 1].ch = "mcp") => calls[j].arg = 1
                /\ (HitOf(calls[j]) = <<>> /\ calls[j].arg < try_filters) =>
                    IF j < Len(calls)
                    THEN calls[j + 1].ch = "rest" /\ calls[j + 1].arg = calls[j].arg + 1
                    ELSE pc = "res_rest" /\ fi = calls[j].arg + 1
        /\ (RestFailed # {} /\ resolved.kind = "return") =>
            resolved.val = HitOf(calls[Len(calls)])[1]
        /\ (RestFailed # {} /\ resolved.kind = "raise") =>
            /\ resolved.exc = FailureOf(calls[CHOOSE j \in RestFailed : \A k \in RestFailed : k <= j])
            /\ calls[Len(calls)].ch = "rest"
            /\ calls[Len(calls)].arg = try_filters

\* C24 witness: the bridge failed, the REST query of filter 1 failed too, and
\* the REST query of filter 2 matched: its entity is returned
C24_Witness ==
    /\ op = "resolve_one_mcp_or_rest"
    /\ try_filters = 2
    /\ Len(calls) = 3
    /\ calls[1].reply.net = "status"
    /\ calls[2].ch = "rest"
    /\ calls[2].reply.net = "transport"
    /\ calls[3].ch = "rest"
    /\ calls[3].arg = 2
    /\ resolved = Returned(Entity(11))


PayloadGiven == Has(body, "payload") /\ ~IsEmptyDict(body.payload)
BridgeCreateAt(j) == calls[j].ch = "mcp" /\ calls[j].target = "netbox_create_device"
RestCreateAt(j) == calls[j].ch = "rest" /\ calls[j].target = "/api/dcim/devices/"
\* the bridge create failed with an error status and the request has ended
BothCreatesDone ==
    /\ pc = "done"
    /\ \E j \in 1..Len(calls) : BridgeCreateAt(j) /\ calls[j].reply.net = "status"
    /\ calls[Len(calls)].reply.net # "2xx"

\* C25: in create_device a REST create is sent only right after a bridge
\* create that failed with an error status; when the REST create fails too
\* (or REST is not configured) the HTTPException raised has the status of the
\* REST failure (502 when that failure is not an HTTPException), its detail
\* is the detail of the REST failure and it carries the bridge error as
\* last_mcp_error; and with a payload in the body the only requests sent are
\* the creates, the bridge create first, with the given payload kept.
C25_CreateDeviceFallback ==
    op = "create_device" =>
        /\ \A j \in 1..Len(calls) :
            RestCreateAt(j) => (j > 1 /\ BridgeCreateAt(j - 1) /\ calls[j - 1].reply.net = "status")
        /\ pc = "create_rest" =>
            (BridgeCreateAt(Len(calls)) /\ calls[Len(calls)].reply.net = "status")
        /\ BothCreatesDone =>
            LET rest == IF Configured THEN FailureOf(calls[Len(calls)]) ELSE NotConfigured
            IN  /\ Configured => RestCreateAt(Len(calls))
                /\ result.kind = "raise"
                /\ result.exc.type = "HTTPException"
                /\ result.exc.status = (IF rest.type = "HTTPException" THEN rest.status ELSE 502)
                /\ result.exc.detail = rest.detail
                /\ "last_mcp_error" \in DOMAIN result.exc
                /\ result.exc.last_mcp_error = <<"MCP call failed">>
        /\ PayloadGiven =>
            /\ sentMcp + sentRest = Len(calls)
            /\ sentMcp <= 1
            /\ calls # <<>> => BridgeCreateAt(1)
            /\ pc # "start" => device_payload = body.payload
            /\ stage = "none"

\* C25 witness: a payload was given, the bridge create answered an error
\* status and the REST create a 400: the 400 is raised with last_mcp_error
C25_Witness ==
    /\ op = "create_device"
    /\ PayloadGiven
    /\ Configured
    /\ pc = "done"
    /\ Len(calls) = 2
    /\ calls[2].reply.net = "status"
    /\ result.kind = "raise"
    /\ result.exc.status = 400
    /\ result.exc.last_mcp_error = <<"MCP call failed">>


\* ---- what a request must end with, computed from its own input and from
\* ---- the replies to its own calls alone
LastFailureIn(cs) ==
    LET failed == {j \in 1..Len(cs) : FailureOf(cs[j]) # NoErr}
    IN  IF failed = {} THEN NoErr
        ELSE FailureOf(cs[CHOOSE j \in failed : \A k \in failed : k <= j])
OwnResolution(f) ==
    IF f.calls # <<>> /\ HitOf(f.calls[Len(f.calls)]) # <<>>
    THEN Returned(HitOf(f.calls[Len(f.calls)])[1])
    ELSE IF LastFailureIn(f.calls) # NoErr THEN Failed(LastFailureIn(f.calls))
    ELSE Failed(HTTPException(404, <<"Object not found via", f.mcp_tool, f.rest_path>>))

RECURSIVE OwnCreated(_, _)
\* the objects the create calls from position j on answered with
OwnCreated(cs, j) ==
    IF j > Len(cs) THEN <<>>
    ELSE IF cs[j].reply.net # "2xx" THEN OwnCreated(cs, j + 1)
    ELSE <<[input |-> cs[j].arg,
            obj |-> IF cs[j].ch = "mcp" THEN cs[j].reply.body.result ELSE cs[j].reply.body]>>
             \o OwnCreated(cs, j + 1)
\* the failure item i ended with on the channel tried last for it
OwnItemError(f, i) ==
    LET mine == {j \in 2..Len(f.calls) : f.calls[j].arg = i}
        last == CHOOSE j \in mine : \A k \in mine : k <= j
    IN  IF f.calls[last].reply.net = "2xx" THEN NoErr
        ELSE IF f.calls[last].ch = "mcp" /\ f.calls[last].reply.net = "status" THEN NotConfigured
        ELSE FailureOf(f.calls[last])
RECURSIVE OwnErrors(_, _)
OwnErrors(f, i) ==
    IF i > Len(f.items) THEN <<>>
    ELSE IF OwnItemError(f, i) = NoErr THEN OwnErrors(f, i + 1)
    ELSE <<[input |-> i, item |-> f.items[i], error |-> OwnItemError(f, i).detail]>>
             \o OwnErrors(f, i + 1)
OwnBatch(f) ==
    LET bulk == f.calls[1]
        unbuildable == {i \in 1..Len(f.items) : ~({"name", "type"} \subseteq DOMAIN f.items[i])}
    IN  IF bulk.reply.net = "2xx" THEN Returned(bulk.reply.body.result)
        ELSE IF bulk.reply.net = "transport" THEN Failed(FailureOf(bulk))
        ELSE IF unbuildable # {}
        THEN Failed(KeyError(IF Has(f.items[CHOOSE i \in unbuildable : \A k \in unbuildable : i <= k], "name")
                             THEN "type" ELSE "name"))
        ELSE IF OwnCreated(f.calls, 2) = <<>> /\ OwnErrors(f, 1) # <<>>
        THEN Failed(HTTPException(502, <<"All interface creates failed">>) @@ [errors |-> OwnErrors(f, 1)])
        ELSE Returned([ok |-> TRUE, created |-> OwnCreated(f.calls, 2), errors |-> OwnErrors(f, 1)])
OwnOutcome(f) == IF f.op = "create_interfaces" THEN OwnBatch(f) ELSE OwnResolution(f)

\* C23: with two requests in flight, interleaved in any way at their awaits,
\* each request that has ended has the result that its own input and the
\* replies to its own calls determine: the entity, the created and errors
\* entries and the error of a request come from its own calls only.
C23_RequestsIndependent ==
    /\ pc = "done" => result = OwnOutcome(Frame)
    /\ suspended.pc = "done" => suspended.result = OwnOutcome(suspended)

\* C23 witness: two batch creations ran interleaved; the waiting one ended
\* with a created object, the running one with every create failed
C23_Witness ==
    /\ op = "create_interfaces"
    /\ suspended.op = "create_interfaces"
    /\ pc = "done"
    /\ suspended.pc = "done"
    /\ result.kind = "raise"
    /\ result.exc.status = 502
    /\ "errors" \in DOMAIN result.exc
    /\ suspended.result.kind = "return"
    /\ Has(suspended.result.val, "created")
    /\ suspended.result.val.errors = <<>>
    /\ Len(suspended.result.val.created) = 1

====
